---- MODULE Spec2Model ----
(***************************************************************************)
(* Model of the kb store (internal/store/sqlite.go over schema.sql) and of *)
(* the add-entry flows of the HTTP server (internal/api/server.go) and of  *)
(* the CLI (cmd/kb/main.go).                                               *)
(*                                                                         *)
(* The database is four tables, each a set of rows.  A SQL statement is    *)
(* one atomic step; a Go function that issues several statements is        *)
(* several steps, between which other callers may run.                     *)
(***************************************************************************)
EXTENDS Integers, Sequences, FiniteSets, TLC

\* ------------------------------------------------------------------ bounds
NumProcs == 2          \* concurrent callers (HTTP handlers, CLI processes)
MaxEntries == 1        \* entries created by direct calls of AddEntry
MaxSuggestions == 1    \* length of the list a Classify call returns
MaxTime == 2           \* clock readings
MaxLimit == 3          \* the largest limit a query is called with
MaxStored == 3         \* entries of the stores the queries run on
MaxTags == 3           \* tag rows of the stores the tag tree is built from

\* ------------------------------------------------------------ input sets
Procs == 1..NumProcs
TagNames == {"go", "prog"}
\* confidences in tenths: 4 is 0.4, 9 is 0.9
Confidences == {4, 9}
\* entry contents as sequences of characters
Contents == {<<" ">>, <<"a">>}
\* float64 values are modelled by their bit patterns (math.Float64bits)
VectorInputs == {<<1>>, <<258, 3>>}
Models == {"voyage-3-lite", "voyage-3"}
\* query and stored vectors of the similarity search, as bit patterns:
\* 96 is 1.0, 160 is 4.0 (its square overflows), 0 is 0.0
SimVectors == {<<96, 0>>, <<96, 96>>, <<160, 0>>, <<96>>, <<0, 0>>}
\* components of the vectors cosineSimilarity is applied to: 0.0, the
\* smallest subnormal, 1.0, 1.0625, 4.0, -1.0, +Inf, a NaN
CosineComponents == {0, 1, 96, 98, 160, 352, 224, 225}
CosineInputs ==
  {<<>>} \cup {<<x>> : x \in CosineComponents}
         \cup {<<x, y>> : x, y \in CosineComponents}
\* what cosineSimilarity is applied to beside the search: the vectors of the
\* search, the empty vector, vectors with +Inf and with a NaN
SimInputs == SimVectors \cup {<<>>, <<224, 0>>, <<225, 0>>}
\* limits of the queries; -1 stands for the negative ones
Limits == -1..MaxLimit
\* offsets of ListEntries
Offsets == -1..MaxStored
\* the values of the query parameters limit and offset of GET /entries, as
\* sequences of characters; the empty one is an absent parameter
QueryParams ==
  {<<>>, <<"x">>, <<"-">>, <<"-", "1">>, <<"+", "1">>, <<"0">>, <<"2">>,
   <<"0", "3">>, <<"2", "x">>, <<"2", "5">>}
\* what a classifier may return for one tag: Parent "" is "no parent"
Suggestions ==
  [name : TagNames, parent : TagNames \cup {""}, confidence : Confidences]

\* a nil pointer / SQL NULL / absent id; uuids are modelled as 1, 2, 3, ...
NoId == 0
\* timestamps are clock readings 1, 2, ...; a NULL timestamp (nil *time.Time)
NoTime == 0
Times == 1..MaxTime
EntryIds == 1..MaxEntries
\* a caller runs one add-entry flow, which creates one entry
FlowEntryIds == 1..NumProcs
TagIds == 1..Cardinality(TagNames)
\* ids of the entries the queries run on
StoredIds == 1..MaxStored
\* names and ids of the tag rows the tag tree is built from
TreeNames == {"go", "golang", "prog"}
TreeIds == 1..MaxTags

VARIABLES
  entries,      \* table entries: rows [id, content, created_at,
                \* last_viewed_at]
  tags,         \* table tags: rows [id, name, parent_id]
  entry_tags,   \* table entry_tags: rows [entry_id, tag_id, confidence]
  embeddings,   \* table embeddings: rows [entry_id, vector, model]
  nextEntry,    \* the next uuid AddEntry draws
  nextTag,      \* the next uuid GetOrCreateTag draws
  now,          \* what time.Now() returns
  proc          \* per caller: position and locals of the running function;
                \* for a direct call of a store method, the call and its result

vars ==
  <<entries, tags, entry_tags, embeddings, nextEntry, nextTag, now, proc>>

\* ---------------------------------------------------------------- schema
\* store.New opens the database with the driver's defaults and runs the
\* schema only: no "_foreign_keys=on" in the DSN and no PRAGMA foreign_keys,
\* so SQLite parses the REFERENCES clauses and does not enforce them.
foreign_keys == FALSE

\* the tags table without the UNIQUE constraint on name
TagsNameNotUnique(name) == TRUE

\* tags.name TEXT UNIQUE NOT NULL
TagsNameUnique(name) == \A r \in tags : r.name # name

\* tags.id TEXT PRIMARY KEY
TagsIdUnique(id) == \A r \in tags : r.id # id

\* tags.parent_id TEXT REFERENCES tags(id)
TagsParentOK(parent_id) ==
  foreign_keys => (parent_id = NoId \/ \E r \in tags : r.id = parent_id)

\* entry_tags.entry_id REFERENCES entries(id), tag_id REFERENCES tags(id)
EntryTagsRefsOK(entry_id, tag_id) ==
  foreign_keys => /\ \E e \in entries : e.id = entry_id
                  /\ \E t \in tags : t.id = tag_id

\* embeddings.entry_id REFERENCES entries(id)
EmbeddingsRefOK(entry_id) ==
  foreign_keys => \E e \in entries : e.id = entry_id

\* ON DELETE CASCADE of entry_tags.entry_id: the rows that survive the
\* deletion of entry id
EntryTagsAfterDelete(id) ==
  IF foreign_keys THEN {r \in entry_tags : r.entry_id # id} ELSE entry_tags

\* ON DELETE CASCADE of embeddings.entry_id
EmbeddingsAfterDelete(id) ==
  IF foreign_keys THEN {r \in embeddings : r.entry_id # id} ELSE embeddings

\* ------------------------------------------------------ vector encoding
RECURSIVE ShiftRight8(_, _)
ShiftRight8(x, k) == IF k = 0 THEN x ELSE ShiftRight8(x \div 256, k - 1)

\* binary.LittleEndian.PutUint64: 8 bytes, least significant first
PutUint64(x) == [i \in 1..8 |-> ShiftRight8(x, i - 1) % 256]

RECURSIVE Uint64From(_, _)
Uint64From(b, i) == IF i > 8 THEN 0 ELSE b[i] + 256 * Uint64From(b, i + 1)

\* binary.LittleEndian.Uint64
Uint64(b) == Uint64From(b, 1)

RECURSIVE vectorToBlob(_)
vectorToBlob(v) ==
  IF v = <<>> THEN <<>> ELSE PutUint64(Head(v)) \o vectorToBlob(Tail(v))

blobToVector(b) ==
  [i \in 1..(Len(b) \div 8) |-> Uint64(SubSeq(b, 8 * (i - 1) + 1, 8 * i))]

\* ------------------------------------------------------------ float64
\* A float64 is modelled by an IEEE 754 binary format of the same structure
\* and a smaller width: one sign bit, ExpBits exponent bits and ManBits
\* fraction bits, held in the low bits of the pattern math.Float64bits
\* returns.  A value is [cls, sgn, mag]: cls is "fin", "inf" or "nan", sgn is
\* 1 or -1, mag is the magnitude in units of the smallest subnormal.  Every
\* operation rounds to nearest, ties to even, as the hardware does.
ExpBits == 3
ManBits == 5

RECURSIVE Pow2(_)
Pow2(k) == IF k = 0 THEN 1 ELSE 2 * Pow2(k - 1)

\* the exponent field of Inf and NaN
ExpMax == Pow2(ExpBits) - 1
Bias == Pow2(ExpBits - 1) - 1
\* 1.0 and the largest finite value, in units
One == Pow2(Bias + ManBits - 1)
MaxFinite == (Pow2(ManBits + 1) - 1) * Pow2(ExpMax - 2)

NaN == [cls |-> "nan", sgn |-> 1, mag |-> 0]
Inf(s) == [cls |-> "inf", sgn |-> s, mag |-> 0]
Fin(s, n) == [cls |-> "fin", sgn |-> s, mag |-> n]
\* the constant 0 of Go source
Zero == Fin(1, 0)

\* math.Float64frombits
Float64frombits(bits) ==
  LET s == IF (bits \div Pow2(ExpBits + ManBits)) % 2 = 1 THEN -1 ELSE 1
      e == (bits \div Pow2(ManBits)) % Pow2(ExpBits)
      m == bits % Pow2(ManBits)
  IN IF e = ExpMax THEN (IF m = 0 THEN Inf(s) ELSE NaN)
     ELSE IF e = 0 THEN Fin(s, m)
     ELSE Fin(s, (Pow2(ManBits) + m) * Pow2(e - 1))

\* the spacing of the representable values around q units
RECURSIVE StepOf(_)
StepOf(q) == IF q < Pow2(ManBits + 1) THEN 1 ELSE 2 * StepOf(q \div 2)

\* the value nearest to s * num / den units; beyond MaxFinite it is Inf
Round(s, num, den) ==
  LET d == den * StepOf(num \div den)
      t == num \div d
      r == num % d
      up == 2 * r > d \/ (2 * r = d /\ t % 2 = 1)
      n == (IF up THEN t + 1 ELSE t) * (d \div den)
  IN IF n > MaxFinite THEN Inf(s) ELSE Fin(s, n)

IsZero(x) == x.cls = "fin" /\ x.mag = 0

\* x * y
FMul(x, y) ==
  IF x.cls = "nan" \/ y.cls = "nan" THEN NaN
  ELSE IF x.cls = "inf" \/ y.cls = "inf"
  THEN (IF IsZero(x) \/ IsZero(y) THEN NaN ELSE Inf(x.sgn * y.sgn))
  ELSE Round(x.sgn * y.sgn, x.mag * y.mag, One)

\* x + y
FAdd(x, y) ==
  IF x.cls = "nan" \/ y.cls = "nan" THEN NaN
  ELSE IF x.cls = "inf" /\ y.cls = "inf"
  THEN (IF x.sgn = y.sgn THEN x ELSE NaN)
  ELSE IF x.cls = "inf" THEN x
  ELSE IF y.cls = "inf" THEN y
  ELSE LET n == x.sgn * x.mag + y.sgn * y.mag IN
       IF n = 0 THEN Fin(IF x.sgn = -1 /\ y.sgn = -1 THEN -1 ELSE 1, 0)
       ELSE IF n < 0 THEN Round(-1, -n, 1) ELSE Round(1, n, 1)

\* x / y
FDiv(x, y) ==
  IF x.cls = "nan" \/ y.cls = "nan" THEN NaN
  ELSE IF x.cls = "inf"
  THEN (IF y.cls = "inf" THEN NaN ELSE Inf(x.sgn * y.sgn))
  ELSE IF y.cls = "inf" THEN Fin(x.sgn * y.sgn, 0)
  ELSE IF IsZero(y)
  THEN (IF IsZero(x) THEN NaN ELSE Inf(x.sgn * y.sgn))
  ELSE Round(x.sgn * y.sgn, x.mag * One, y.mag)

\* the integer square root
RECURSIVE Isqrt(_)
Isqrt(n) ==
  IF n < 2 THEN n
  ELSE LET r == 2 * Isqrt(n \div 4) IN
       IF (r + 1) * (r + 1) <= n THEN r + 1 ELSE r

\* math.Sqrt
FSqrt(x) ==
  IF x.cls = "nan" THEN NaN
  ELSE IF IsZero(x) THEN x
  ELSE IF x.sgn = -1 THEN NaN
  ELSE IF x.cls = "inf" THEN x
  ELSE LET n == x.mag * One
           st == StepOf(Isqrt(n))
           t == Isqrt(n) \div st
           mid == (2 * t + 1) * st
           up == 4 * n > mid * mid \/ (4 * n = mid * mid /\ t % 2 = 1)
       IN Fin(1, (IF up THEN t + 1 ELSE t) * st)

\* the place of a value that is no NaN on the extended real line
Ord(x) == IF x.cls = "inf" THEN x.sgn * (MaxFinite + 1) ELSE x.sgn * x.mag

\* x > y and x == y of Go: false when either is NaN
FGt(x, y) == x.cls # "nan" /\ y.cls # "nan" /\ Ord(x) > Ord(y)
FEq(x, y) == x.cls # "nan" /\ y.cls # "nan" /\ Ord(x) = Ord(y)

\* the loop of cosineSimilarity over i >= k: dot, normA and normB
RECURSIVE Sums(_, _, _, _)
Sums(a, b, k, acc) ==
  IF k > Len(a) THEN acc
  ELSE LET x == Float64frombits(a[k])
           y == Float64frombits(b[k])
       IN Sums(a, b, k + 1,
               [dot |-> FAdd(acc.dot, FMul(x, y)),
                normA |-> FAdd(acc.normA, FMul(x, x)),
                normB |-> FAdd(acc.normB, FMul(y, y))])

\* cosineSimilarity without the test of the norms
cosineSimilarityUnguarded(a, b) ==
  IF Len(a) # Len(b) THEN Zero
  ELSE LET s == Sums(a, b, 1, [dot |-> Zero, normA |-> Zero, normB |-> Zero])
       IN FDiv(s.dot, FMul(FSqrt(s.normA), FSqrt(s.normB)))

\* cosineSimilarity of the store
cosineSimilarity(a, b) ==
  IF Len(a) # Len(b) THEN Zero
  ELSE LET s == Sums(a, b, 1, [dot |-> Zero, normA |-> Zero, normB |-> Zero])
       IN IF FEq(s.normA, Zero) \/ FEq(s.normB, Zero) THEN Zero
          ELSE FDiv(s.dot, FMul(FSqrt(s.normA), FSqrt(s.normB)))

\* embedding.CosineSimilarity: the same function in the embedding package
CosineSimilarity(a, b) ==
  IF Len(a) # Len(b) THEN Zero
  ELSE LET s == Sums(a, b, 1, [dot |-> Zero, normA |-> Zero, normB |-> Zero])
       IN IF FEq(s.normA, Zero) \/ FEq(s.normB, Zero) THEN Zero
          ELSE FDiv(s.dot, FMul(FSqrt(s.normA), FSqrt(s.normB)))

\* whether cosineSimilarity(a, b) reaches its division, and the divisor
Divides(a, b) ==
  /\ Len(a) = Len(b)
  /\ LET s == Sums(a, b, 1, [dot |-> Zero, normA |-> Zero, normB |-> Zero])
     IN ~(FEq(s.normA, Zero) \/ FEq(s.normB, Zero))

Divisor(a, b) ==
  LET s == Sums(a, b, 1, [dot |-> Zero, normA |-> Zero, normB |-> Zero])
  IN FMul(FSqrt(s.normA), FSqrt(s.normB))


\* ------------------------------------------------------------- locals
\* strings.TrimSpace on a sequence of characters
RECURSIVE TrimLeft(_)
TrimLeft(s) == IF s # <<>> /\ Head(s) = " " THEN TrimLeft(Tail(s)) ELSE s

RECURSIVE TrimRight(_)
TrimRight(s) ==
  IF s # <<>> /\ s[Len(s)] = " " THEN TrimRight(SubSeq(s, 1, Len(s) - 1)) ELSE s

TrimSpace(s) == TrimRight(TrimLeft(s))

\* strconv.Atoi on a sequence of characters: an optional sign and one or more
\* decimal digits.  The parameters of the model are short, so the value is
\* always in the range of int.
Digits == <<"0", "1", "2", "3", "4", "5", "6", "7", "8", "9">>
IsDigit(c) == \E i \in 1..Len(Digits) : Digits[i] = c
DigitValue(c) == (CHOOSE i \in 1..Len(Digits) : Digits[i] = c) - 1

RECURSIVE ParseDigits(_, _)
ParseDigits(s, acc) ==
  IF s = <<>> THEN acc
  ELSE ParseDigits(Tail(s), Len(Digits) * acc + DigitValue(Head(s)))

Atoi(s) ==
  LET signed == s # <<>> /\ Head(s) \in {"+", "-"}
      body == IF signed THEN Tail(s) ELSE s
  IN IF body = <<>> \/ \E i \in 1..Len(body) : ~IsDigit(body[i])
     THEN [err |-> "syntax", n |-> 0]
     ELSE [err |-> "nil",
           n |-> IF signed /\ Head(s) = "-" THEN 0 - ParseDigits(body, 0)
                 ELSE ParseDigits(body, 0)]

\* uuid.New().String() gives every id a string of the same length; the model
\* writes the id drawn as IdDigits digits of base IdBase
IdBase == 16
IdDigits == 2

RECURSIVE DigitsOf(_, _)
DigitsOf(id, k) ==
  IF k = 0 THEN <<>> ELSE Append(DigitsOf(id \div IdBase, k - 1), id % IdBase)

IdString(id) == DigitsOf(id, IdDigits)

\* strings.HasPrefix
HasPrefix(s, prefix) ==
  Len(prefix) <= Len(s) /\ SubSeq(s, 1, Len(prefix)) = prefix

\* server.go 171, main.go 190: ListEntries(100, 0)
LookupWindow == 100

\* server.go 200: limit := 20
DefaultLimit == 20

\* server.go 200-207: the limit the handler calls the store with
LimitParam(l) ==
  IF l # <<>> /\ Atoi(l).err = "nil" /\ Atoi(l).n > 0 THEN Atoi(l).n
  ELSE DefaultLimit

\* server.go 201-212: the offset the handler calls the store with
OffsetParam(o) ==
  IF o # <<>> /\ Atoi(o).err = "nil" /\ Atoi(o).n >= 0 THEN Atoi(o).n ELSE 0

NoSuggestion == [name |-> "", parent |-> "", confidence |-> 0]

\* A caller that runs nothing.  kind is "http" (Server.addEntry), "cli"
\* (addCmd) or "call" (a direct call of the store method fn); status is the
\* HTTP status written, for the cli "nil" / "err" (what RunE returns), "panic"
\* when the handler dereferenced a nil pointer, for a direct call the error
\* the method returned ("nil" for none).  For the handlers that build the tag
\* tree: result is the list ListTags returned, roots the root ids, r the
\* number of roots taken, stack the running buildNode / printTree calls (the
\* tag id and the number of children taken), calls the calls made so far.
\* For GET /entries: params is the pair of the query parameters limit and
\* offset, limit and offset what the store was called with.  For the lookup
\* of an entry: key is the identifier asked for.  For a direct call: again
\* says that the caller's previous call was the same call and returned nil.
\* For POST /entries: resp is resp.Tags, the tags of the response so far.
IdleProc ==
  [kind |-> "", fn |-> "", pc |-> "idle", phase |-> "", name |-> "",
   parentArg |-> NoId, content |-> <<>>, added |-> NoId, entry |-> NoId,
   n |-> 0, sug |-> NoSuggestion, parentID |-> NoId, tagID |-> NoId,
   confidence |-> 0, old_confidence |-> 0, vector |-> <<>>, model |-> "",
   old_vector |-> <<>>, a |-> <<>>, b |-> <<>>, sim |-> Zero, limit |-> 0,
   exclude |-> NoId, result |-> <<>>,
   roots |-> <<>>, r |-> 0, stack |-> <<>>, calls |-> 0,
   offset |-> 0, params |-> <<>>, key |-> <<>>, again |-> FALSE,
   resp |-> <<>>, status |-> "", failed |-> {}]

Init ==
  /\ entries = {}
  /\ tags = {}
  /\ entry_tags = {}
  /\ embeddings = {}
  /\ nextEntry = 1
  /\ nextTag = 1
  /\ now = 1
  /\ proc = [p \in Procs |-> IdleProc]

\* ------------------------------------------------------- store methods
\* Each takes `fault`: the driver returned an error that is no constraint
\* violation (database locked, I/O error); the statement then changed nothing.
\* uuid.New is modelled by a counter that advances when the drawn id is
\* stored; an id drawn for a statement that failed is never seen again.

\* the error AddEntry returns
AddErr(fault) == IF fault THEN "storage" ELSE "nil"

\* Store.AddEntry
AddEntry(content, fault) ==
  /\ entries' = IF fault THEN entries
                ELSE entries \cup {[id |-> nextEntry, content |-> content,
                                     created_at |-> now,
                                     last_viewed_at |-> NoTime]}
  /\ nextEntry' = IF fault THEN nextEntry ELSE nextEntry + 1
  /\ UNCHANGED <<tags, entry_tags, embeddings, nextTag, now>>

\* the error DeleteEntry returns: RowsAffected = 0 is "entry not found"
DeleteErr(id, fault) ==
  IF fault THEN "storage"
  ELSE IF \A r \in entries : r.id # id THEN "not found" ELSE "nil"

\* DELETE FROM entries without its WHERE
DeleteEntryAll(id, fault) ==
  LET gone == DeleteErr(id, fault) = "nil" IN
  /\ entries' = IF gone THEN {} ELSE entries
  /\ entry_tags' = IF gone THEN EntryTagsAfterDelete(id) ELSE entry_tags
  /\ embeddings' = IF gone THEN EmbeddingsAfterDelete(id) ELSE embeddings
  /\ UNCHANGED <<tags, nextEntry, nextTag, now>>

\* Store.DeleteEntry: DELETE FROM entries WHERE id = ?
DeleteEntry(id, fault) ==
  LET gone == DeleteErr(id, fault) = "nil" IN
  /\ entries' = IF gone THEN {r \in entries : r.id # id} ELSE entries
  /\ entry_tags' = IF gone THEN EntryTagsAfterDelete(id) ELSE entry_tags
  /\ embeddings' = IF gone THEN EmbeddingsAfterDelete(id) ELSE embeddings
  /\ UNCHANGED <<tags, nextEntry, nextTag, now>>

\* Store.GetEntryTags: tags t JOIN entry_tags et ON t.id = et.tag_id
GetEntryTags(entryID) ==
  {t \in tags : \E et \in entry_tags :
                   et.tag_id = t.id /\ et.entry_id = entryID}

\* Store.GetEntry: the row and its tags, or an error (sql.ErrNoRows wrapped)
GetEntry(id, fault) ==
  LET hit == {r \in entries : r.id = id} IN
  LET none == [id |-> NoId, content |-> <<>>, created_at |-> NoTime,
               last_viewed_at |-> NoTime, tags |-> {}] IN
  IF fault THEN [err |-> "storage"] @@ none
  ELSE IF hit = {} THEN [err |-> "not found"] @@ none
  ELSE LET r == CHOOSE r \in hit : TRUE IN
       [err |-> "nil", tags |-> GetEntryTags(id)] @@ r

\* INSERT OR IGNORE INTO entry_tags: a conflicting row is kept as it is
EntryTagsInsertOrIgnore(entryID, tagID, confidence) ==
  IF \E r \in entry_tags : r.entry_id = entryID /\ r.tag_id = tagID
  THEN entry_tags
  ELSE entry_tags \cup
         {[entry_id |-> entryID, tag_id |-> tagID, confidence |-> confidence]}

\* INSERT OR REPLACE INTO entry_tags: the rows that conflict with the new
\* row on PRIMARY KEY (entry_id, tag_id) are deleted, then the row is added
EntryTagsUpsert(entryID, tagID, confidence) ==
  {r \in entry_tags : ~(r.entry_id = entryID /\ r.tag_id = tagID)}
    \cup {[entry_id |-> entryID, tag_id |-> tagID, confidence |-> confidence]}

\* the error of a plain INSERT INTO entry_tags: a row of the pair violates
\* the PRIMARY KEY
LinkErrInsert(entryID, tagID, fault) ==
  IF fault THEN "storage"
  ELSE IF ~EntryTagsRefsOK(entryID, tagID) THEN "foreign key"
  ELSE IF \E r \in entry_tags : r.entry_id = entryID /\ r.tag_id = tagID
  THEN "unique"
  ELSE "nil"

\* the error LinkEntryTag returns
LinkErr(entryID, tagID, fault) ==
  IF fault THEN "storage"
  ELSE IF ~EntryTagsRefsOK(entryID, tagID) THEN "foreign key" ELSE "nil"

\* LinkEntryTag inside a transaction that also holds the INSERT of the
\* entry: a failed link rolls the entry back
LinkEntryTagRollback(entryID, tagID, confidence, fault) ==
  LET err == IF fault THEN "storage" ELSE "nil" IN
  /\ entry_tags' = IF err = "nil"
                   THEN {r \in entry_tags :
                           ~(r.entry_id = entryID /\ r.tag_id = tagID)}
                        \cup {[entry_id |-> entryID, tag_id |-> tagID,
                                confidence |-> confidence]}
                   ELSE entry_tags
  /\ entries' = IF err = "nil" THEN entries
                ELSE {r \in entries : r.id # entryID}
  /\ UNCHANGED <<tags, embeddings, nextEntry, nextTag, now>>

\* Store.LinkEntryTag
LinkEntryTag(entryID, tagID, confidence, fault) ==
  /\ entry_tags' = IF LinkErr(entryID, tagID, fault) = "nil"
                   THEN EntryTagsUpsert(entryID, tagID, confidence)
                   ELSE entry_tags
  /\ UNCHANGED <<entries, tags, embeddings, nextEntry, nextTag, now>>

\* INSERT INTO embeddings of a table without the PRIMARY KEY: rows pile up
EmbeddingsInsert(entryID, blob, model) ==
  embeddings \cup {[entry_id |-> entryID, vector |-> blob, model |-> model]}

\* INSERT OR REPLACE INTO embeddings: PRIMARY KEY entry_id
EmbeddingsUpsert(entryID, blob, model) ==
  {r \in embeddings : r.entry_id # entryID}
    \cup {[entry_id |-> entryID, vector |-> blob, model |-> model]}

\* the error SaveEmbedding returns
SaveErr(entryID, fault) ==
  IF fault THEN "storage"
  ELSE IF ~EmbeddingsRefOK(entryID) THEN "foreign key" ELSE "nil"

\* Store.SaveEmbedding
SaveEmbedding(entryID, vector, model, fault) ==
  /\ embeddings' = IF SaveErr(entryID, fault) = "nil"
                   THEN EmbeddingsUpsert(entryID, vectorToBlob(vector), model)
                   ELSE embeddings
  /\ UNCHANGED <<entries, tags, entry_tags, nextEntry, nextTag, now>>

\* --------------------------------------------------------------- queries
\* the orders in which a statement may deliver the rows of a set
RECURSIVE Enumerations(_)
Enumerations(S) ==
  IF S = {} THEN {<<>>}
  ELSE UNION {{<<x>> \o t : t \in Enumerations(S \ {x})} : x \in S}

\* entries e JOIN embeddings em ON e.id = em.entry_id, every entry included
SimilarRowsAll(excludeID) ==
  {[id |-> pair[1].id, content |-> pair[1].content,
    created_at |-> pair[1].created_at, vector |-> pair[2].vector] :
     pair \in {x \in entries \X embeddings : x[1].id = x[2].entry_id}}

\* sqlite.go 318-323: entries e JOIN embeddings em ON e.id = em.entry_id
\* WHERE e.id != excludeID
SimilarRows(excludeID) ==
  {[id |-> pair[1].id, content |-> pair[1].content,
    created_at |-> pair[1].created_at, vector |-> pair[2].vector] :
     pair \in {x \in entries \X embeddings :
                 x[1].id = x[2].entry_id /\ x[1].id # excludeID}}

\* sqlite.go 329-341: one SimilarEntry per scanned row
Scored(vector, scan) ==
  [i \in 1..Len(scan) |->
     [Entry |-> [id |-> scan[i].id, content |-> scan[i].content,
                 created_at |-> scan[i].created_at],
      Similarity |-> cosineSimilarity(vector, blobToVector(scan[i].vector))]]

Swap(r, i, j) == [r EXCEPT ![i] = r[j], ![j] = r[i]]

\* sqlite.go 345-349: the loop over j of the sort
RECURSIVE SortInner(_, _, _)
SortInner(r, i, j) ==
  IF j > Len(r) THEN r
  ELSE SortInner(IF FGt(r[j].Similarity, r[i].Similarity)
                 THEN Swap(r, i, j) ELSE r, i, j + 1)

\* sqlite.go 344-350: the loop over i of the sort
RECURSIVE SortOuter(_, _)
SortOuter(r, i) ==
  IF i >= Len(r) THEN r ELSE SortOuter(SortInner(r, i, i + 1), i + 1)

\* a sort that keeps the order of the scan
SortNothing(r) == r

\* sqlite.go 343-350: sort by similarity descending
SortBySimilarity(r) == SortOuter(r, 1)

\* Store.FindSimilar(vector, limit, excludeID), the rows delivered in the
\* order scan; results[:limit] panics when limit is negative
FindSimilar(vector, limit, excludeID, scan, fault) ==
  LET results == SortBySimilarity(Scored(vector, scan)) IN
  IF fault THEN [err |-> "storage", results |-> <<>>]
  ELSE IF Len(results) > limit
  THEN (IF limit < 0 THEN [err |-> "panic", results |-> <<>>]
        ELSE [err |-> "nil", results |-> SubSeq(results, 1, limit)])
  ELSE [err |-> "nil", results |-> results]

\* x sorts before y under ORDER BY created_at DESC
CreatedBefore(x, y) == x.created_at > y.created_at

\* x sorts before y under ORDER BY last_viewed_at ASC NULLS FIRST,
\* created_at DESC
StaleBefore(x, y) ==
  \/ x.last_viewed_at = NoTime /\ y.last_viewed_at # NoTime
  \/ /\ x.last_viewed_at # NoTime /\ y.last_viewed_at # NoTime
     /\ x.last_viewed_at < y.last_viewed_at
  \/ /\ x.last_viewed_at = y.last_viewed_at
     /\ x.created_at > y.created_at

\* the orders ORDER BY allows for the rows of a set: rows the ORDER BY does
\* not tell apart come in any order
OrderByStale(rows) ==
  {s \in Enumerations(rows) :
     \A i, j \in 1..Len(s) : i < j => ~StaleBefore(s[j], s[i])}

\* LIMIT n: SQLite reads a negative n as no limit
Limit(s, n) == IF n < 0 \/ n >= Len(s) THEN s ELSE SubSeq(s, 1, n)

\* Store.GetSuggestions(limit): the results the query may return
GetSuggestions(limit) == {Limit(s, limit) : s \in OrderByStale(entries)}

\* the orders ORDER BY created_at DESC allows for the rows of a set: entries
\* created at the same time come in any order
\* (the rows are split at a median creation time: those created later come
\* first, then those created at that time, then those created earlier)
RECURSIVE OrderByCreated(_)
OrderByCreated(rows) ==
  IF rows = {} THEN {<<>>}
  ELSE LET later(t) == {x \in rows : x.created_at > t}
           earlier(t) == {x \in rows : x.created_at < t}
           mid == CHOOSE t \in {x.created_at : x \in rows} :
                    /\ 2 * Cardinality(later(t)) <= Cardinality(rows)
                    /\ 2 * Cardinality(earlier(t)) <= Cardinality(rows)
       IN {a \o b \o c : a \in OrderByCreated(later(mid)),
                          b \in Enumerations({x \in rows : x.created_at = mid}),
                          c \in OrderByCreated(earlier(mid))}

\* OFFSET m without the LIMIT
PageAll(s, n, m) ==
  LET skip == IF m < 0 THEN 0 ELSE m IN SubSeq(s, skip + 1, Len(s))

\* LIMIT n OFFSET m: SQLite reads a negative n as no limit and a negative m
\* as 0
Page(s, n, m) ==
  LET skip == IF m < 0 THEN 0 ELSE m
      last == IF n < 0 \/ skip + n > Len(s) THEN Len(s) ELSE skip + n
  IN SubSeq(s, skip + 1, last)

\* Store.ListEntries(limit, offset): the results the query may return
ListEntries(limit, offset) ==
  {Page(s, limit, offset) : s \in OrderByCreated(entries)}

\* entries e JOIN entry_tags et ON e.id = et.entry_id WHERE et.tag_id IN
\* (SELECT tag_id FROM entry_tags WHERE entry_id = entryID) AND
\* e.id != entryID: the joined rows, each a pair of an entry and a link
TagJoin(entryID) ==
  {x \in entries \X entry_tags :
     /\ x[1].id = x[2].entry_id
     /\ x[2].tag_id \in {et.tag_id : et \in {r \in entry_tags :
                                               r.entry_id = entryID}}
     /\ x[1].id # entryID}

\* SELECT e.id, e.content, e.created_at, e.last_viewed_at without DISTINCT
\* and without ORDER BY: one row per joined pair
SelectAll(join) ==
  {[i \in 1..Len(s) |-> s[i][1]] : s \in Enumerations(join)}

\* SELECT DISTINCT e.id, e.content, e.created_at, e.last_viewed_at ...
\* ORDER BY e.last_viewed_at ASC NULLS FIRST, e.created_at DESC
SelectDistinct(join) == OrderByStale({x[1] : x \in join})

\* Store.FindSimilar(entryID, limit), the tag-based one: the results the
\* query may return
FindSimilarByTags(entryID, limit) ==
  {Limit(s, limit) : s \in SelectDistinct(TagJoin(entryID))}

\* tag names in the order of SQLite's BINARY collation
NamesInOrder == <<"concurrency", "go", "golang", "prog", "programming">>
NameRank(name) == CHOOSE i \in 1..Len(NamesInOrder) : NamesInOrder[i] = name

\* Store.ListTags: SELECT ... FROM tags ORDER BY name
ListTags ==
  CHOOSE s \in Enumerations(tags) :
    \A i, j \in 1..Len(s) : i < j => NameRank(s[i].name) <= NameRank(s[j].name)

\* roots that also take a tag that names itself as parent
RootIDsOrSelf(list) ==
  LET roots == SelectSeq(list, LAMBDA t : t.parent_id \in {NoId, t.id}) IN
  [i \in 1..Len(roots) |-> roots[i].id]

\* roots without the test of the parent: every tag
RootIDsAll(list) == [i \in 1..Len(list) |-> list[i].id]

\* server.go 250-257: rootIDs, the ids of the tags without parent, and
\* children[id], the ids of the tags whose parent is id, in ListTags' order
RootIDs(list) ==
  LET roots == SelectSeq(list, LAMBDA t : t.parent_id = NoId) IN
  [i \in 1..Len(roots) |-> roots[i].id]

ChildrenOf(list, id) ==
  LET kids == SelectSeq(list, LAMBDA t : t.parent_id = id) IN
  [i \in 1..Len(kids) |-> kids[i].id]

\* server.go 259-267: buildNode
RECURSIVE buildNode(_, _)
buildNode(list, id) ==
  LET t == CHOOSE t \in {list[i] : i \in 1..Len(list)} : t.id = id
      kids == ChildrenOf(list, id)
  IN [ID |-> t.id, Name |-> t.name,
      Children |-> [i \in 1..Len(kids) |-> buildNode(list, kids[i])]]

\* Server.listTags: the tree it writes under "tags"
listTags ==
  LET list == ListTags
      roots == RootIDs(list)
  IN [i \in 1..Len(roots) |-> buildNode(list, roots[i])]

\* --------------------------------------------------- Store.GetOrCreateTag
\* Two statements: the SELECT by name, then, on sql.ErrNoRows, the INSERT.

\* the error of the INSERT INTO tags
TagInsertErr(id, name, parentID, fault) ==
  IF fault THEN "storage"
  ELSE IF ~(TagsNameUnique(name) /\ TagsIdUnique(id)) THEN "unique"
  ELSE IF ~TagsParentOK(parentID) THEN "foreign key"
  ELSE "nil"

\* what a flow remembers of a failed GetOrCreateTag call: "race" when the
\* INSERT hit UNIQUE(name), "tag" for any other error
TagFailure(err) ==
  IF err = "nil" THEN {} ELSE IF err = "unique" THEN {"race"} ELSE {"tag"}

\* a loop body that calls GetOrCreateTag(suggestion.Name, nil)
ReturnedNoParent(st, err, id) ==
  IF st.kind = "call"
  THEN [st EXCEPT !.pc = "done", !.status = err, !.tagID = id]
  ELSE IF st.phase = "parent"
  THEN [st EXCEPT !.pc = "select", !.phase = "tag", !.name = st.sug.name,
                  !.parentID = NoId, !.parentArg = NoId,
                  !.failed = @ \cup TagFailure(err)]
  ELSE IF err = "nil"
  THEN [st EXCEPT !.pc = "link", !.tagID = id]
  ELSE [st EXCEPT !.pc = "loop", !.failed = @ \cup TagFailure(err)]

\* What the caller does with the (tag, err) GetOrCreateTag returns: st is the
\* caller's state, the result its next state.
\*   direct call: the call is over.
\*   parent call of the loop body (server.go 124-129, main.go 107-114): on
\*     success parentID = &parentTag.ID, in either case GetOrCreateTag(
\*     suggestion.Name, parentID) is called next.
\*   tag call (server.go 131-134, main.go 116-120): on error `continue`,
\*     else LinkEntryTag is next.
Returned(st, err, id) ==
  IF st.kind = "call"
  THEN [st EXCEPT !.pc = "done", !.status = err, !.tagID = id]
  ELSE IF st.phase = "parent"
  THEN [st EXCEPT !.pc = "select", !.phase = "tag", !.name = st.sug.name,
                  !.parentID = IF err = "nil" THEN id ELSE NoId,
                  !.parentArg = IF err = "nil" THEN id ELSE NoId,
                  !.failed = @ \cup TagFailure(err)]
  ELSE IF err = "nil"
  THEN [st EXCEPT !.pc = "link", !.tagID = id]
  ELSE [st EXCEPT !.pc = "loop", !.failed = @ \cup TagFailure(err)]

\* a GetOrCreateTag that, when the name exists and a parent is given, moves
\* the stored row under that parent
GetOrCreateTagSelectUpdate(p) ==
  /\ proc[p].pc = "select"
  /\ \E fault \in BOOLEAN :
       LET hit == {r \in tags : r.name = proc[p].name} IN
       /\ proc' = [proc EXCEPT ![p] =
            IF fault THEN Returned(@, "storage", NoId)
            ELSE IF hit # {}
            THEN Returned(@, "nil", (CHOOSE r \in hit : TRUE).id)
            ELSE [@ EXCEPT !.pc = "insert"]]
       /\ tags' = IF fault \/ proc[p].parentArg = NoId THEN tags
                  ELSE (tags \ hit) \cup
                         {[r EXCEPT !.parent_id = proc[p].parentArg] : r \in hit}
  /\ UNCHANGED <<entries, entry_tags, embeddings, nextEntry, nextTag, now>>

\* sqlite.go 130-140: SELECT ... FROM tags WHERE name = ?
GetOrCreateTagSelect(p) ==
  /\ proc[p].pc = "select"
  /\ \E fault \in BOOLEAN :
       LET hit == {r \in tags : r.name = proc[p].name} IN
       proc' = [proc EXCEPT ![p] =
         IF fault THEN Returned(@, "storage", NoId)
         ELSE IF hit # {} THEN Returned(@, "nil", (CHOOSE r \in hit : TRUE).id)
         ELSE [@ EXCEPT !.pc = "insert"]]
  /\ UNCHANGED <<entries, tags, entry_tags, embeddings, nextEntry, nextTag, now>>

\* INSERT OR REPLACE INTO tags: the row of the name is deleted, then the new
\* row is added under its new id
GetOrCreateTagInsertOrReplace(p) ==
  /\ proc[p].pc = "insert"
  /\ \E fault \in BOOLEAN :
       LET err == IF fault THEN "storage" ELSE "nil" IN
       /\ tags' = IF err = "nil"
                  THEN {r \in tags : r.name # proc[p].name /\ r.id # nextTag}
                       \cup {[id |-> nextTag, name |-> proc[p].name,
                               parent_id |-> proc[p].parentArg]}
                  ELSE tags
       /\ nextTag' = IF err = "nil" THEN nextTag + 1 ELSE nextTag
       /\ proc' = [proc EXCEPT ![p] =
            Returned(@, err, IF err = "nil" THEN nextTag ELSE NoId)]
  /\ UNCHANGED <<entries, entry_tags, embeddings, nextEntry, now>>

\* sqlite.go 142-159: uuid.New, INSERT INTO tags
GetOrCreateTagInsert(p) ==
  /\ proc[p].pc = "insert"
  /\ \E fault \in BOOLEAN :
       LET err == TagInsertErr(nextTag, proc[p].name, proc[p].parentArg, fault)
       IN
       /\ tags' = IF err = "nil"
                  THEN tags \cup {[id |-> nextTag, name |-> proc[p].name,
                                   parent_id |-> proc[p].parentArg]}
                  ELSE tags
       /\ nextTag' = IF err = "nil" THEN nextTag + 1 ELSE nextTag
       /\ proc' = [proc EXCEPT ![p] =
            Returned(@, err, IF err = "nil" THEN nextTag ELSE NoId)]
  /\ UNCHANGED <<entries, entry_tags, embeddings, nextEntry, now>>

\* ------------------------------------------ direct calls of the store
\* a caller that has run nothing yet
Free(p) == proc[p].pc = "idle"

\* A caller between calls; it keeps its last call and what it returned.
Callable(p) == proc[p].kind \in {"", "call"} /\ proc[p].pc \in {"idle", "done"}

\* the state of a caller whose call of fn returned err
Called(fn, err) ==
  [IdleProc EXCEPT !.kind = "call", !.fn = fn, !.pc = "done", !.status = err]

\* the confidence stored for a pair, 0 when there is no row
ConfidenceOf(entryID, tagID) ==
  LET hit == {r \in entry_tags : r.entry_id = entryID /\ r.tag_id = tagID} IN
  IF hit = {} THEN 0 ELSE (CHOOSE r \in hit : TRUE).confidence

\* the blob stored for an entry, empty when there is no row
BlobOf(entryID) ==
  LET hit == {r \in embeddings : r.entry_id = entryID} IN
  IF hit = {} THEN <<>> ELSE (CHOOSE r \in hit : TRUE).vector

\* the model stored for an entry, "" when there is no row
ModelOf(entryID) ==
  LET hit == {r \in embeddings : r.entry_id = entryID} IN
  IF hit = {} THEN "" ELSE (CHOOSE r \in hit : TRUE).model

\* the call of fn that st records has returned nil: the caller's next call
\* of fn with the same arguments is a repetition
Succeeded(st, fn) ==
  st.kind = "call" /\ st.fn = fn /\ st.pc = "done" /\ st.status = "nil"

\* p calls GetOrCreateTag(name, parentID)
CallGetOrCreateTag(p, name, parentID) ==
  /\ Callable(p)
  /\ proc' = [proc EXCEPT ![p] =
       [IdleProc EXCEPT !.kind = "call", !.fn = "GetOrCreateTag",
                        !.pc = "select", !.name = name,
                        !.parentArg = parentID,
                        !.again = /\ Succeeded(proc[p], "GetOrCreateTag")
                                  /\ proc[p].name = name
                                  /\ proc[p].parentArg = parentID]]
  /\ UNCHANGED <<entries, tags, entry_tags, embeddings, nextEntry, nextTag, now>>

\* p calls AddEntry(content)
CallAddEntry(p, content, fault) ==
  /\ Callable(p)
  /\ nextEntry <= MaxEntries
  /\ AddEntry(content, fault)
  /\ proc' = [proc EXCEPT ![p] =
       [Called("AddEntry", AddErr(fault)) EXCEPT
          !.content = content,
          !.added = IF fault THEN NoId ELSE nextEntry]]

\* p calls DeleteEntry(id)
CallDeleteEntry(p, id, fault) ==
  /\ Callable(p)
  /\ DeleteEntry(id, fault)
  /\ proc' = [proc EXCEPT ![p] =
       [Called("DeleteEntry", DeleteErr(id, fault)) EXCEPT !.entry = id]]

\* p calls LinkEntryTag(entryID, tagID, confidence)
CallLinkEntryTag(p, entryID, tagID, confidence, fault) ==
  /\ Callable(p)
  /\ LinkEntryTag(entryID, tagID, confidence, fault)
  /\ proc' = [proc EXCEPT ![p] =
       [Called("LinkEntryTag", LinkErr(entryID, tagID, fault)) EXCEPT
          !.entry = entryID, !.tagID = tagID, !.confidence = confidence,
          !.old_confidence = ConfidenceOf(entryID, tagID),
          !.again = /\ Succeeded(proc[p], "LinkEntryTag")
                    /\ proc[p].entry = entryID /\ proc[p].tagID = tagID
                    /\ proc[p].confidence = confidence]]

\* p calls SaveEmbedding(entryID, vector, model)
CallSaveEmbedding(p, entryID, vector, model, fault) ==
  /\ Callable(p)
  /\ SaveEmbedding(entryID, vector, model, fault)
  /\ proc' = [proc EXCEPT ![p] =
       [Called("SaveEmbedding", SaveErr(entryID, fault)) EXCEPT
          !.entry = entryID, !.vector = vector, !.model = model,
          !.old_vector = blobToVector(BlobOf(entryID)),
          !.again = /\ Succeeded(proc[p], "SaveEmbedding")
                    /\ proc[p].entry = entryID /\ proc[p].vector = vector
                    /\ proc[p].model = model]]

\* the clock advances
Tick ==
  /\ now < MaxTime
  /\ now' = now + 1
  /\ UNCHANGED <<entries, tags, entry_tags, embeddings, nextEntry, nextTag, proc>>

\* ------------------------------------------------------------- queries
\* A caller issues one query; it keeps the call and what it returned.

\* p calls cosineSimilarity(a, b)
CallCosineSimilarity(p, a, b) ==
  /\ Free(p)
  /\ proc' = [proc EXCEPT ![p] =
       [Called("cosineSimilarity", "nil") EXCEPT
          !.a = a, !.b = b, !.sim = cosineSimilarity(a, b)]]
  /\ UNCHANGED <<entries, tags, entry_tags, embeddings, nextEntry, nextTag, now>>

\* p calls the vector FindSimilar(vector, limit, excludeID); the scan
\* delivers the rows in any order
CallFindSimilar(p, vector, limit, excludeID, fault) ==
  /\ Free(p)
  /\ \E scan \in Enumerations(SimilarRows(excludeID)) :
       LET r == FindSimilar(vector, limit, excludeID, scan, fault) IN
       proc' = [proc EXCEPT ![p] =
         [Called("FindSimilar", r.err) EXCEPT
            !.vector = vector, !.limit = limit, !.exclude = excludeID,
            !.result = r.results]]
  /\ UNCHANGED <<entries, tags, entry_tags, embeddings, nextEntry, nextTag, now>>

\* p calls GetSuggestions(limit)
CallGetSuggestions(p, limit, fault) ==
  /\ Free(p)
  /\ \E r \in GetSuggestions(limit) :
       proc' = [proc EXCEPT ![p] =
         [Called("GetSuggestions", IF fault THEN "storage" ELSE "nil") EXCEPT
            !.limit = limit, !.result = IF fault THEN <<>> ELSE r]]
  /\ UNCHANGED <<entries, tags, entry_tags, embeddings, nextEntry, nextTag, now>>

\* p calls the tag-based FindSimilar(entryID, limit)
CallFindSimilarByTags(p, entryID, limit, fault) ==
  /\ Free(p)
  /\ \E r \in FindSimilarByTags(entryID, limit) :
       proc' = [proc EXCEPT ![p] =
         [Called("FindSimilarByTags", IF fault THEN "storage" ELSE "nil")
            EXCEPT !.entry = entryID, !.limit = limit,
                   !.result = IF fault THEN <<>> ELSE r]]
  /\ UNCHANGED <<entries, tags, entry_tags, embeddings, nextEntry, nextTag, now>>

\* p calls ListEntries(limit, offset)
CallListEntries(p, limit, offset, fault) ==
  /\ Free(p)
  /\ \E r \in ListEntries(limit, offset) :
       proc' = [proc EXCEPT ![p] =
         [Called("ListEntries", IF fault THEN "storage" ELSE "nil") EXCEPT
            !.limit = limit, !.offset = offset,
            !.result = IF fault THEN <<>> ELSE r]]
  /\ UNCHANGED <<entries, tags, entry_tags, embeddings, nextEntry, nextTag, now>>

\* Server.listEntries: GET /entries?limit=l&offset=o
HttpListEntries(p, l, o, fault) ==
  /\ Free(p)
  /\ \E r \in ListEntries(LimitParam(l), OffsetParam(o)) :
       proc' = [proc EXCEPT ![p] =
         [IdleProc EXCEPT !.kind = "listEntries", !.pc = "done",
                          !.params = <<l, o>>,
                          !.limit = LimitParam(l), !.offset = OffsetParam(o),
                          !.status = IF fault THEN "500" ELSE "200",
                          !.result = IF fault THEN <<>> ELSE r]]
  /\ UNCHANGED <<entries, tags, entry_tags, embeddings, nextEntry, nextTag, now>>

\* listCmd: `kb list -n limit`
CliList(p, limit, fault) ==
  /\ Free(p)
  /\ \E r \in ListEntries(limit, 0) :
       proc' = [proc EXCEPT ![p] =
         [IdleProc EXCEPT !.kind = "listCmd", !.pc = "done",
                          !.limit = limit, !.offset = 0,
                          !.status = IF fault THEN "err" ELSE "nil",
                          !.result = IF fault THEN <<>> ELSE r]]
  /\ UNCHANGED <<entries, tags, entry_tags, embeddings, nextEntry, nextTag, now>>

\* ------------------------------------------------------ entry lookup
\* Server.getEntry (kind "getEntry") and showCmd (kind "showCmd"): the entry
\* is looked for among the entries ListEntries(100, 0) returns, the first
\* whose id starts with the key is read with GetEntry.  The route
\* GET /entries/{id} matches no empty id.

\* the ids of a list whose string starts with key, in the order of the list
Matches(list, key) ==
  SelectSeq([i \in 1..Len(list) |-> list[i].id],
            LAMBDA id : HasPrefix(IdString(id), key))

\* server.go 168-188, main.go 189-205: ListEntries(100, 0), which returned
\* list, and the search by prefix
LookupList(p, kind, key, list, fault) ==
  /\ Free(p)
  /\ kind = "getEntry" => key # <<>>
  /\ LET st == [IdleProc EXCEPT !.kind = kind, !.key = key] IN
     proc' = [proc EXCEPT ![p] =
       IF fault
       THEN [st EXCEPT !.pc = "done",
                       !.status = IF kind = "getEntry" THEN "500" ELSE "err"]
       ELSE IF Matches(list, key) = <<>>
       THEN [st EXCEPT !.pc = "done",
                       !.status = IF kind = "getEntry" THEN "404"
                                  ELSE "not found"]
       ELSE [st EXCEPT !.pc = "get", !.entry = Matches(list, key)[1]]]
  /\ UNCHANGED <<entries, tags, entry_tags, embeddings, nextEntry, nextTag, now>>

\* server.go 190-196, main.go 207-223: GetEntry(fullID) and the answer
LookupGet(p, fault) ==
  /\ proc[p].pc = "get"
  /\ LET e == GetEntry(proc[p].entry, fault) IN
     proc' = [proc EXCEPT ![p] =
       IF e.err # "nil"
       THEN [@ EXCEPT !.pc = "done",
                      !.status = IF proc[p].kind = "getEntry" THEN "500"
                                 ELSE "err"]
       ELSE [@ EXCEPT !.pc = "done", !.result = <<e>>,
                      !.status = IF proc[p].kind = "getEntry" THEN "200"
                                 ELSE "nil"]]
  /\ UNCHANGED <<entries, tags, entry_tags, embeddings, nextEntry, nextTag, now>>

\* ---------------------------------------------------------- tag tree
\* Server.listTags (kind "listTags") and tagsCmd (kind "tagsCmd") read the
\* tags, split them into roots and children and descend from every root:
\* buildNode and printTree call themselves for each child.  One step is one
\* call or one return.

\* server.go 235-253, main.go 239-261: ListTags, the roots and the children
TagsStart(p, kind, fault) ==
  /\ Free(p)
  /\ LET st == [IdleProc EXCEPT !.kind = kind] IN
     proc' = [proc EXCEPT ![p] =
       IF fault
       THEN [st EXCEPT !.pc = "done",
                       !.status = IF kind = "listTags" THEN "500" ELSE "err"]
       ELSE IF kind = "tagsCmd" /\ Len(ListTags) = 0
       THEN [st EXCEPT !.pc = "done", !.status = "nil"]
       ELSE [st EXCEPT !.pc = "walk", !.result = ListTags,
                       !.roots = RootIDs(ListTags)]]
  /\ UNCHANGED <<entries, tags, entry_tags, embeddings, nextEntry, nextTag, now>>

\* server.go 266-267, main.go 273-274: buildNode(rootID), printTree(rootID, 0)
TreeRoot(p) ==
  /\ proc[p].pc = "walk"
  /\ proc[p].stack = <<>>
  /\ proc[p].r < Len(proc[p].roots)
  /\ proc[p].calls <= Cardinality(tags)
  /\ proc' = [proc EXCEPT ![p] =
       [@ EXCEPT !.r = @ + 1, !.calls = @ + 1,
                 !.stack = <<[id |-> proc[p].roots[proc[p].r + 1], i |-> 0]>>]]
  /\ UNCHANGED <<entries, tags, entry_tags, embeddings, nextEntry, nextTag, now>>

\* server.go 259-261, main.go 268-270: the call for the next child
TreeChild(p) ==
  /\ proc[p].pc = "walk"
  /\ proc[p].stack # <<>>
  /\ proc[p].calls <= Cardinality(tags)
  /\ LET top == proc[p].stack[Len(proc[p].stack)]
         kids == ChildrenOf(proc[p].result, top.id)
     IN /\ top.i < Len(kids)
        /\ proc' = [proc EXCEPT ![p] =
             [@ EXCEPT !.calls = @ + 1,
                       !.stack = Append([@ EXCEPT ![Len(@)].i = top.i + 1],
                                        [id |-> kids[top.i + 1], i |-> 0])]]
  /\ UNCHANGED <<entries, tags, entry_tags, embeddings, nextEntry, nextTag, now>>

\* server.go 262, main.go 271: the children are exhausted, the call returns
TreeReturn(p) ==
  /\ proc[p].pc = "walk"
  /\ proc[p].stack # <<>>
  /\ LET top == proc[p].stack[Len(proc[p].stack)] IN
       top.i = Len(ChildrenOf(proc[p].result, top.id))
  /\ proc' = [proc EXCEPT ![p] =
       [@ EXCEPT !.stack = SubSeq(@, 1, Len(@) - 1)]]
  /\ UNCHANGED <<entries, tags, entry_tags, embeddings, nextEntry, nextTag, now>>

\* server.go 270-273 (writeJSON), main.go 277 (return nil)
TreeEnd(p) ==
  /\ proc[p].pc = "walk"
  /\ proc[p].stack = <<>>
  /\ proc[p].r = Len(proc[p].roots)
  /\ proc' = [proc EXCEPT ![p] =
       [@ EXCEPT !.pc = "done",
                 !.status = IF proc[p].kind = "listTags" THEN "200" ELSE "nil"]]
  /\ UNCHANGED <<entries, tags, entry_tags, embeddings, nextEntry, nextTag, now>>

\* ------------------------------------------------------ add-entry flows
\* The flow of one request (Server.addEntry) or of one run of `kb add`
\* (addCmd): AddEntry, classification, the loop over the suggestions, and for
\* http the refresh of the entry and the embedding.  A caller runs one flow.

ClassifierOutcomes == {"new failed", "classify failed", "ok"}
EmbedderOutcomes == {"new failed", "embed failed", "ok"}

\* the flow is over: its locals are dead, what it did stays
Ended(st, status) ==
  [IdleProc EXCEPT !.kind = st.kind, !.pc = "done", !.status = status,
                   !.content = st.content, !.added = st.added,
                   !.entry = st.entry, !.failed = st.failed]

\* server.go 89-108: decode, TrimSpace check, AddEntry
HttpAddEntry(p, content, noClassify, malformed, fault) ==
  /\ Free(p)
  /\ LET st == [IdleProc EXCEPT !.kind = "http", !.content = content] IN
     IF malformed \/ TrimSpace(content) = <<>>
     THEN /\ proc' = [proc EXCEPT ![p] = Ended(st, "400")]
          /\ UNCHANGED <<entries, tags, entry_tags, embeddings, nextEntry,
                         nextTag, now>>
     ELSE /\ AddEntry(content, fault)
          /\ proc' = [proc EXCEPT ![p] =
               IF fault THEN Ended(st, "500")
               ELSE [st EXCEPT !.added = nextEntry, !.entry = nextEntry,
                               !.pc = IF noClassify THEN "embed"
                                      ELSE "classify"]]

\* main.go 57-78: strings.Join(args, " "), AddEntry, --no-classify
CliAdd(p, content, noClassify, fault) ==
  /\ Free(p)
  /\ AddEntry(content, fault)
  /\ LET st == [IdleProc EXCEPT !.kind = "cli", !.content = content] IN
     proc' = [proc EXCEPT ![p] =
       IF fault THEN Ended(st, "err")
       ELSE LET ok == [st EXCEPT !.added = nextEntry, !.entry = nextEntry] IN
            IF noClassify THEN Ended(ok, "nil")
            ELSE [ok EXCEPT !.pc = "classify"]]

\* a handler that answers 500 when the classifier fails
ClassifiedOrAbort(st, outcome) ==
  IF outcome = "ok" THEN [st EXCEPT !.pc = "loop"]
  ELSE [IdleProc EXCEPT !.kind = st.kind, !.pc = "done",
                        !.status = IF st.kind = "http" THEN "500" ELSE "err",
                        !.content = st.content, !.added = st.added,
                        !.entry = st.entry,
                        !.failed = st.failed \cup {"classifier"}]

\* The caller's state after classifier.New and clf.Classify:
\*   http (server.go 111-120): a failure skips to the embedding step;
\*   cli (main.go 80-98): a failure prints and returns nil.
Classified(st, outcome) ==
  IF outcome = "ok" THEN [st EXCEPT !.pc = "loop"]
  ELSE LET f == [st EXCEPT !.failed = @ \cup {"classifier"}] IN
       IF st.kind = "http" THEN [f EXCEPT !.pc = "embed"] ELSE Ended(f, "nil")

\* classifier.New, ListTags (a read whose error is dropped), clf.Classify
Classify(p, outcome) ==
  /\ proc[p].pc = "classify"
  /\ proc' = [proc EXCEPT ![p] = Classified(@, outcome)]
  /\ UNCHANGED <<entries, tags, entry_tags, embeddings, nextEntry, nextTag, now>>

\* server.go 121-131, main.go 103-116: the loop takes the next suggestion
\* and calls GetOrCreateTag for its parent, or for its name when it has none
NextSuggestion(p, s) ==
  /\ proc[p].pc = "loop"
  /\ proc' = [proc EXCEPT ![p] =
       [@ EXCEPT !.n = @ + 1, !.sug = s, !.parentID = NoId, !.tagID = NoId,
                 !.parentArg = NoId, !.pc = "select",
                 !.phase = IF s.parent # "" THEN "parent" ELSE "tag",
                 !.name = IF s.parent # "" THEN s.parent ELSE s.name]]
  /\ UNCHANGED <<entries, tags, entry_tags, embeddings, nextEntry, nextTag, now>>

\* the caller's state when the list of suggestions is exhausted: http goes
\* on to the refresh (server.go 145-147), the cli returns nil (main.go 134)
Exhausted(st) ==
  LET t == [st EXCEPT !.sug = NoSuggestion, !.phase = "", !.name = "",
                      !.parentID = NoId, !.tagID = NoId, !.parentArg = NoId]
  IN IF st.kind = "http" THEN [t EXCEPT !.pc = "refresh"] ELSE Ended(t, "nil")

EndSuggestions(p) ==
  /\ proc[p].pc = "loop"
  /\ proc' = [proc EXCEPT ![p] = Exhausted(@)]
  /\ UNCHANGED <<entries, tags, entry_tags, embeddings, nextEntry, nextTag, now>>

\* server.go 138-142: the TagWithParent appended to resp.Tags
TagWithParent(suggestion) ==
  [Name |-> suggestion.name, Parent |-> suggestion.parent,
   Confidence |-> suggestion.confidence]

\* server.go 136-142 (the error is dropped), main.go 122-125 (the error is
\* printed and the loop continues): either way the loop goes on
Linked(st, err) ==
  [st EXCEPT !.pc = "loop",
             !.failed = IF err = "nil" THEN @ ELSE @ \cup {"link"},
             !.resp = IF st.kind = "http"
                      THEN Append(@, TagWithParent(st.sug)) ELSE @]

\* LinkEntryTag(entry.ID, tag.ID, suggestion.Confidence) of the loop body
Link(p) ==
  /\ proc[p].pc = "link"
  /\ \E fault \in BOOLEAN :
       /\ LinkEntryTag(proc[p].entry, proc[p].tagID,
                       proc[p].sug.confidence, fault)
       /\ proc' = [proc EXCEPT ![p] =
            Linked(@, LinkErr(proc[p].entry, proc[p].tagID, fault))]

\* server.go 146: entry, _ = s.store.GetEntry(entry.ID); on error entry is nil
Refresh(p) ==
  /\ proc[p].pc = "refresh"
  /\ \E fault \in BOOLEAN :
       proc' = [proc EXCEPT ![p] =
         [@ EXCEPT !.entry = GetEntry(proc[p].entry, fault).id,
                   !.pc = "embed"]]
  /\ UNCHANGED <<entries, tags, entry_tags, embeddings, nextEntry, nextTag, now>>

\* The caller's state after embedding.New and embSvc.Embed (server.go
\* 153-164): a failure skips FindSimilar and SaveEmbedding; on success
\* entry.ID is evaluated, which panics when the refresh left entry nil; the
\* error of SaveEmbedding is dropped.
Embedded(st, outcome, saveErr) ==
  IF outcome # "ok"
  THEN Ended([st EXCEPT !.failed = @ \cup {"embedder"}], "201")
  ELSE IF st.entry = NoId THEN Ended(st, "panic")
  ELSE Ended([st EXCEPT !.failed = IF saveErr = "nil" THEN @
                                   ELSE @ \cup {"save"}], "201")

\* embedding.New, Embed, FindSimilar (a read), SaveEmbedding, writeJSON
Embed(p, outcome, vector) ==
  /\ proc[p].pc = "embed"
  /\ \E fault \in BOOLEAN :
       /\ IF outcome = "ok" /\ proc[p].entry # NoId
          THEN SaveEmbedding(proc[p].entry, vector, "voyage-3-lite", fault)
          ELSE UNCHANGED <<entries, tags, entry_tags, embeddings, nextEntry,
                           nextTag, now>>
       /\ proc' = [proc EXCEPT ![p] =
            Embedded(@, outcome, SaveErr(proc[p].entry, fault))]

\* ------------------------------------------------------- specifications
\* the steps of a running GetOrCreateTag call
TagSteps == \E p \in Procs : GetOrCreateTagSelect(p) \/ GetOrCreateTagInsert(p)

\* the steps of the add-entry flows
FlowSteps ==
  \/ \E p \in Procs, c \in Contents, nc \in BOOLEAN, f \in BOOLEAN :
       \/ \E m \in BOOLEAN : HttpAddEntry(p, c, nc, m, f)
       \/ CliAdd(p, c, nc, f)
  \/ \E p \in Procs, o \in ClassifierOutcomes : Classify(p, o)
  \/ \E p \in Procs, s \in Suggestions :
       proc[p].n < MaxSuggestions /\ NextSuggestion(p, s)
  \/ \E p \in Procs : EndSuggestions(p) \/ Link(p) \/ Refresh(p)
  \/ \E p \in Procs, o \in EmbedderOutcomes, v \in VectorInputs : Embed(p, o, v)
  \/ TagSteps

\* concurrent callers of GetOrCreateTag
NextTags ==
  \/ \E p \in Procs, n \in TagNames, par \in TagIds \cup {NoId} :
       CallGetOrCreateTag(p, n, par)
  \/ TagSteps

\* one caller of the store methods
NextStore ==
  \/ \E c \in Contents, f \in BOOLEAN : CallAddEntry(1, c, f)
  \/ \E id \in EntryIds, f \in BOOLEAN : CallDeleteEntry(1, id, f)
  \/ \E e \in EntryIds, t \in TagIds, c \in Confidences, f \in BOOLEAN :
       CallLinkEntryTag(1, e, t, c, f)
  \/ \E e \in EntryIds, v \in VectorInputs, m \in Models, f \in BOOLEAN :
       CallSaveEmbedding(1, e, v, m, f)
  \/ \E n \in TagNames : CallGetOrCreateTag(1, n, NoId)
  \/ GetOrCreateTagSelect(1)
  \/ GetOrCreateTagInsert(1)
  \/ Tick

\* the add-entry flows alone: what the server and the cli run
NextAdd == FlowSteps

\* the add-entry flows with a caller of DeleteEntry beside them
Next ==
  \/ FlowSteps
  \/ \E id \in FlowEntryIds, f \in BOOLEAN : CallDeleteEntry(NumProcs, id, f)

\* ---------------------------------------------- stores of the queries
\* A store that holds MaxStored entries, as AddEntry creates them; some have
\* an embedding, as SaveEmbedding stores it.
InitSimilar ==
  /\ entries = {[id |-> e, content |-> <<"a">>, created_at |-> 1,
                 last_viewed_at |-> NoTime] : e \in StoredIds}
  /\ tags = {}
  /\ entry_tags = {}
  /\ \E D \in SUBSET StoredIds : \E f \in [D -> SimVectors] :
       embeddings = {[entry_id |-> e, vector |-> vectorToBlob(f[e]),
                      model |-> "voyage-3-lite"] : e \in D}
  /\ nextEntry = MaxStored + 1
  /\ nextTag = 1
  /\ now = 1
  /\ proc = [p \in Procs |-> IdleProc]

\* the similarity search and the function it ranks by
NextSimilar ==
  \/ \E v \in SimVectors \cup {<<>>}, l \in Limits,
        x \in StoredIds \cup {NoId}, f \in BOOLEAN :
       CallFindSimilar(1, v, l, x, f)
  \/ \E a, b \in SimInputs : CallCosineSimilarity(1, a, b)

\* cosineSimilarity alone
NextCosine == \E a, b \in CosineInputs : CallCosineSimilarity(1, a, b)

\* A store that holds any of the entries 1..MaxStored, created at any time
\* and never viewed or last viewed at any time.
InitSuggest ==
  /\ \E D \in SUBSET StoredIds :
       \E c \in [D -> Times], v \in [D -> Times \cup {NoTime}] :
         entries = {[id |-> e, content |-> <<"a">>, created_at |-> c[e],
                     last_viewed_at |-> v[e]] : e \in D}
  /\ tags = {}
  /\ entry_tags = {}
  /\ embeddings = {}
  /\ nextEntry = MaxStored + 1
  /\ nextTag = 1
  /\ now = MaxTime
  /\ proc = [p \in Procs |-> IdleProc]

NextSuggest == \E l \in Limits, f \in BOOLEAN : CallGetSuggestions(1, l, f)

\* the listing of the entries: the store method, GET /entries and `kb list`
NextList ==
  \/ \E l \in Limits, o \in Offsets, f \in BOOLEAN : CallListEntries(1, l, o, f)
  \/ \E l, o \in QueryParams, f \in BOOLEAN : HttpListEntries(1, l, o, f)
  \/ \E l \in Limits, f \in BOOLEAN : CliList(1, l, f)

\* A store that holds the entries 1..MaxStored, entry 1 with an embedding,
\* the tags of TagNames, and any links between them.
InitRelated ==
  /\ \E c \in [StoredIds \ {1} -> Times],
        v \in [StoredIds \ {1} -> Times \cup {NoTime}] :
       entries = {[id |-> e, content |-> <<"a">>,
                   created_at |-> IF e = 1 THEN 1 ELSE c[e],
                   last_viewed_at |-> IF e = 1 THEN NoTime ELSE v[e]] :
                    e \in StoredIds}
  /\ tags = {[id |-> 1, name |-> "go", parent_id |-> NoId],
             [id |-> 2, name |-> "prog", parent_id |-> NoId]}
  /\ \E L \in SUBSET (StoredIds \X TagIds) :
       entry_tags = {[entry_id |-> x[1], tag_id |-> x[2], confidence |-> 9] :
                       x \in L}
  /\ embeddings = {[entry_id |-> 1, vector |-> vectorToBlob(<<96>>),
                    model |-> "voyage-3-lite"]}
  /\ nextEntry = MaxStored + 1
  /\ nextTag = 3
  /\ now = MaxTime
  /\ proc = [p \in Procs |-> IdleProc]

\* the tag-based search, and DeleteEntry of an entry or of an id that is none
NextRelated ==
  \/ \E e \in StoredIds, l \in Limits, f \in BOOLEAN :
       CallFindSimilarByTags(1, e, l, f)
  \/ \E id \in 1..(MaxStored + 1), f \in BOOLEAN : CallDeleteEntry(1, id, f)

\* what the classifier returns in the flow of one entry about Go's
\* concurrency: two tags under one parent
Scenario ==
  <<[name |-> "golang", parent |-> "programming", confidence |-> 9],
    [name |-> "concurrency", parent |-> "programming", confidence |-> 4]>>

\* one add-entry flow that classifies, on a store without tags; a classifier
\* that answers returns Scenario
NextScenario ==
  \/ \E f \in BOOLEAN :
       HttpAddEntry(1, <<"a">>, FALSE, FALSE, f) \/ CliAdd(1, <<"a">>, FALSE, f)
  \/ \E o \in ClassifierOutcomes : Classify(1, o)
  \/ proc[1].n < Len(Scenario) /\ NextSuggestion(1, Scenario[proc[1].n + 1])
  \/ proc[1].n = Len(Scenario) /\ EndSuggestions(1)
  \/ Link(1)
  \/ Refresh(1)
  \/ \E o \in EmbedderOutcomes, v \in VectorInputs : Embed(1, o, v)
  \/ GetOrCreateTagSelect(1)
  \/ GetOrCreateTagInsert(1)

\* the keys an entry is looked up by: the full ids of the two oldest entries,
\* of the entries around the end of the list the lookup reads and of two ids
\* that are no entry's, the empty key and two keys of one digit
LookupKeys ==
  {IdString(id) : id \in {1, 2} \cup (LookupWindow - 1)..(LookupWindow + 3)}
    \cup {<<>>, <<0>>, <<IdBase - 1>>}

\* A store as AddEntry fills it: the entries 1..n, created one after the
\* other and never viewed, for one entry, for as many as the lookup lists and
\* for one more; the oldest entry has any of the tags.
InitLookup ==
  /\ \E n \in {1, LookupWindow, LookupWindow + 1} :
       /\ entries = {[id |-> e, content |-> <<"a">>, created_at |-> e,
                      last_viewed_at |-> NoTime] : e \in 1..n}
       /\ nextEntry = n + 1
       /\ now = n + 1
  /\ tags = {[id |-> 1, name |-> "go", parent_id |-> NoId],
             [id |-> 2, name |-> "prog", parent_id |-> NoId]}
  /\ \E T \in SUBSET TagIds :
       entry_tags = {[entry_id |-> 1, tag_id |-> t, confidence |-> 9] : t \in T}
  /\ embeddings = {}
  /\ nextTag = 3
  /\ proc = [p \in Procs |-> IdleProc]

\* GET /entries/{id} and `kb show`
NextLookup ==
  \/ \E list \in ListEntries(LookupWindow, 0) :
       \E k \in {"getEntry", "showCmd"}, key \in LookupKeys, f \in BOOLEAN :
         LookupList(1, k, key, list, f)
  \/ \E f \in BOOLEAN : LookupGet(1, f)

\* A store that holds any tag rows of the ids 1..MaxTags: the names differ
\* (UNIQUE), a parent_id is NULL or any id, the tag's own included (no foreign
\* key is enforced).
InitTree ==
  /\ entries = {}
  /\ \E D \in SUBSET TreeIds :
       \E n \in [D -> TreeNames], par \in [D -> TreeIds \cup {NoId}] :
         /\ \A x, y \in D : n[x] = n[y] => x = y
         /\ tags = {[id |-> t, name |-> n[t], parent_id |-> par[t]] : t \in D}
  /\ entry_tags = {}
  /\ embeddings = {}
  /\ nextEntry = 1
  /\ nextTag = MaxTags + 1
  /\ now = 1
  /\ proc = [p \in Procs |-> IdleProc]

\* GET /tags and `kb tags`
NextTree ==
  \/ \E k \in {"listTags", "tagsCmd"}, f \in BOOLEAN : TagsStart(1, k, f)
  \/ TreeRoot(1)
  \/ TreeChild(1)
  \/ TreeReturn(1)
  \/ TreeEnd(1)

Spec == Init /\ [][Next]_vars
\* a handler that has started runs on: its goroutine or process is scheduled
SpecTree == InitTree /\ [][NextTree]_vars /\ WF_vars(NextTree)
SpecScenario == Init /\ [][NextScenario]_vars
SpecSimilar == InitSimilar /\ [][NextSimilar]_vars
SpecCosine == Init /\ [][NextCosine]_vars
SpecSuggest == InitSuggest /\ [][NextSuggest]_vars
SpecList == InitSuggest /\ [][NextList]_vars
SpecLookup == InitLookup /\ [][NextLookup]_vars
SpecRelated == InitRelated /\ [][NextRelated]_vars
SpecAdd == Init /\ [][NextAdd]_vars
SpecTags == Init /\ [][NextTags]_vars
SpecStore == Init /\ [][NextStore]_vars

\* ---------------------------------------------------------- properties
\* a direct call of fn by p has returned
Done(p, fn) == proc[p].kind = "call" /\ proc[p].fn = fn /\ proc[p].pc = "done"

EntryExists(id) == \E r \in entries : r.id = id
TagExists(id) == \E r \in tags : r.id = id

\* C1: two GetOrCreateTag calls for the same name, one after the other or
\* interleaved, both return without error and return the same tag id (calls
\* the driver failed with a storage error are left aside).
C1_SameTagIdTwice ==
  \A p, q \in Procs :
    (/\ p # q
     /\ Done(p, "GetOrCreateTag") /\ Done(q, "GetOrCreateTag")
     /\ proc[p].name = proc[q].name
     /\ proc[p].status # "storage" /\ proc[q].status # "storage")
    => /\ proc[p].status = "nil" /\ proc[q].status = "nil"
       /\ proc[p].tagID = proc[q].tagID

\* C2: a GetOrCreateTag call whose INSERT loses against UNIQUE(name) returns
\* no error but the row the winner created: a call that returned while a row
\* of its name exists returned that row's id.
C2_LoserReturnsWinnersRow ==
  \A p \in Procs :
    (Done(p, "GetOrCreateTag") /\ proc[p].status # "storage")
    => \A r \in tags :
         r.name = proc[p].name
         => proc[p].status = "nil" /\ proc[p].tagID = r.id

\* C3: under any interleaving of GetOrCreateTag calls there is at most one
\* tag row per tag name.
C3_OneRowPerName ==
  \A r1, r2 \in tags : r1.name = r2.name => r1 = r2

\* C3 witness: two callers raced on one name; the loser's INSERT hit the
\* constraint while the winner's row is stored.
C3_Witness ==
  \E p \in Procs :
    /\ Done(p, "GetOrCreateTag") /\ proc[p].status = "unique"
    /\ \E r \in tags : r.name = proc[p].name

\* C4: after DeleteEntry(id) returned nil, no entry_tags row and no
\* embeddings row of id remains and GetEntry(id) returns an error.
C4_CascadeDelete ==
  \A p \in Procs :
    (Done(p, "DeleteEntry") /\ proc[p].status = "nil")
    => /\ \A r \in entry_tags : r.entry_id # proc[p].entry
       /\ \A r \in embeddings : r.entry_id # proc[p].entry
       /\ GetEntry(proc[p].entry, FALSE).err # "nil"

\* C5: there is at most one entry_tags row per (entry_id, tag_id), and when
\* LinkEntryTag returned nil the row of its pair carries its confidence.
C5_LinkUpsert ==
  /\ \A r1, r2 \in entry_tags :
       (r1.entry_id = r2.entry_id /\ r1.tag_id = r2.tag_id) => r1 = r2
  /\ \A p \in Procs :
       (Done(p, "LinkEntryTag") /\ proc[p].status = "nil")
       => {r \in entry_tags : r.entry_id = proc[p].entry
                                /\ r.tag_id = proc[p].tagID}
          = {[entry_id |-> proc[p].entry, tag_id |-> proc[p].tagID,
              confidence |-> proc[p].confidence]}

\* C5 witness: a pair linked with 0.4 has been linked again with 0.9.
C5_Witness ==
  \E p \in Procs :
    /\ Done(p, "LinkEntryTag") /\ proc[p].status = "nil"
    /\ proc[p].old_confidence = 4 /\ proc[p].confidence = 9

\* C6: LinkEntryTag with an entryID that is no entry or a tagID that is no
\* tag returns an error and adds no entry_tags row.
C6_LinkNotFound ==
  \A p \in Procs :
    (/\ Done(p, "LinkEntryTag")
     /\ ~(EntryExists(proc[p].entry) /\ TagExists(proc[p].tagID)))
    => /\ proc[p].status # "nil"
       /\ ConfidenceOf(proc[p].entry, proc[p].tagID) = proc[p].old_confidence

\* C7: there is at most one embeddings row per entry, and when SaveEmbedding
\* returned nil the row of its entry decodes to its vector and has its model.
C7_EmbeddingUpsert ==
  /\ \A r1, r2 \in embeddings : r1.entry_id = r2.entry_id => r1 = r2
  /\ \A p \in Procs :
       (Done(p, "SaveEmbedding") /\ proc[p].status = "nil")
       => /\ blobToVector(BlobOf(proc[p].entry)) = proc[p].vector
          /\ ModelOf(proc[p].entry) = proc[p].model

\* C7 witness: a vector was saved over a stored vector of another length and
\* another model.
C7_Witness ==
  \E p \in Procs :
    /\ Done(p, "SaveEmbedding") /\ proc[p].status = "nil"
    /\ proc[p].old_vector # <<>>
    /\ Len(proc[p].old_vector) # Len(proc[p].vector)

\* C8: under any interleaving of DeleteEntry with the add-entry flows every
\* entry_tags row references an existing entry and an existing tag and every
\* embeddings row references an existing entry.
C8_NoOrphans ==
  /\ \A r \in entry_tags : EntryExists(r.entry_id) /\ TagExists(r.tag_id)
  /\ \A r \in embeddings : EntryExists(r.entry_id)

\* the entry row a flow inserted is stored with its id and content
Stored(p) ==
  {[id |-> r.id, content |-> r.content] : r \in {r \in entries :
                                                   r.id = proc[p].added}}
    = {[id |-> proc[p].added, content |-> proc[p].content]}

C10_EntryKept ==
  \A p \in Procs :
    (/\ proc[p].pc = "done" /\ proc[p].added # NoId
     /\ proc[p].failed \cap {"tag", "race", "link", "save"} # {})
    => Stored(p)

\* C10 witness: a flow has ended in which a GetOrCreateTag call lost the race
\* on a name (its error is the constraint's), a link and the save failed.
C10_Witness ==
  \E p \in Procs :
    /\ proc[p].pc = "done" /\ proc[p].kind = "http"
    /\ {"race", "link", "save"} \subseteq proc[p].failed
    /\ Stored(p)

\* the vector stored for an entry, decoded
VectorOf(entryID) == blobToVector(BlobOf(entryID))

\* C11: the result of the vector FindSimilar(v, limit, X) holds no entry
\* whose id is X.
C11_ExcludesX ==
  \A p \in Procs :
    Done(p, "FindSimilar")
    => \A i \in 1..Len(proc[p].result) :
         proc[p].result[i].Entry.id # proc[p].exclude

\* C11 witness: FindSimilar(v, MaxLimit, X) returned other entries while X
\* has a stored embedding equal to v.
C11_Witness ==
  \E p \in Procs :
    /\ Done(p, "FindSimilar") /\ proc[p].status = "nil"
    /\ proc[p].limit = MaxLimit
    /\ \E r \in embeddings : r.entry_id = proc[p].exclude
    /\ VectorOf(proc[p].exclude) = proc[p].vector
    /\ Len(proc[p].result) = MaxStored - 1

\* C12: for limit >= 0 the vector FindSimilar returns min(limit, number of
\* non-excluded entries having an embedding) results, each a scanned entry
\* with its similarity and no entry twice, no result having a greater
\* similarity than one before it and no omitted entry having a greater
\* similarity than a returned one; limit 0 yields the empty result.
C12_TopByLimit ==
  \A p \in Procs :
    (Done(p, "FindSimilar") /\ proc[p].status # "storage"
     /\ proc[p].limit >= 0)
    => LET res == proc[p].result
           rows == {e \in entries :
                      /\ e.id # proc[p].exclude
                      /\ \E r \in embeddings : r.entry_id = e.id}
           sim(id) == cosineSimilarity(proc[p].vector, VectorOf(id))
           got == {res[i].Entry.id : i \in 1..Len(res)}
       IN /\ proc[p].status = "nil"
          /\ Len(res) = IF proc[p].limit < Cardinality(rows)
                        THEN proc[p].limit ELSE Cardinality(rows)
          /\ Cardinality(got) = Len(res)
          /\ \A i \in 1..Len(res) :
               /\ \E e \in rows : e.id = res[i].Entry.id
               /\ res[i].Similarity = sim(res[i].Entry.id)
          /\ \A i, j \in 1..Len(res) :
               i < j => ~FGt(res[j].Similarity, res[i].Similarity)
          /\ \A e \in rows :
               e.id \notin got
               => \A i \in 1..Len(res) : ~FGt(sim(e.id), res[i].Similarity)
          /\ proc[p].limit = 0 => res = <<>>

\* C12 witness: of three scanned entries with three different similarities
\* the two most similar were returned.
C12_Witness ==
  \E p \in Procs :
    /\ Done(p, "FindSimilar") /\ proc[p].status = "nil"
    /\ proc[p].limit = 2 /\ Len(proc[p].result) = 2
    /\ proc[p].exclude = NoId
    /\ Cardinality(embeddings) = 3
    /\ FGt(proc[p].result[1].Similarity, proc[p].result[2].Similarity)
    /\ \E r \in embeddings :
         /\ \A i \in 1..2 : proc[p].result[i].Entry.id # r.entry_id
         /\ FGt(proc[p].result[2].Similarity,
                cosineSimilarity(proc[p].vector, blobToVector(r.vector)))

\* C13: what the vector FindSimilar returns is a function of the store's
\* contents, the query vector, the limit and excludeId: it is the same
\* sequence in whatever order the scan delivers the rows.
C13_TieOrderDeterministic ==
  \A p \in Procs :
    (Done(p, "FindSimilar") /\ proc[p].status = "nil")
    => \A scan \in Enumerations(SimilarRows(proc[p].exclude)) :
         FindSimilar(proc[p].vector, proc[p].limit, proc[p].exclude, scan,
                     FALSE).results = proc[p].result

\* every component is +0 or -0
ZeroNorm(v) == \A i \in 1..Len(v) : IsZero(Float64frombits(v[i]))

\* C14: cosineSimilarity(a, b), and CosineSimilarity of the embedding
\* package, return exactly 0 and do not reach the division when the lengths
\* differ or a vector has zero norm (the empty vector too); FindSimilar with
\* limit >= 0 returns without error and reports similarity 0 for every
\* stored embedding whose length differs from the query vector's.
C14_ZeroOnMismatch ==
  \A p \in Procs :
    /\ (/\ Done(p, "cosineSimilarity")
        /\ \/ Len(proc[p].a) # Len(proc[p].b)
           \/ ZeroNorm(proc[p].a) \/ ZeroNorm(proc[p].b))
       => /\ proc[p].sim = Zero
          /\ CosineSimilarity(proc[p].a, proc[p].b) = Zero
          /\ ~Divides(proc[p].a, proc[p].b)
    /\ (Done(p, "cosineSimilarity") /\ Divides(proc[p].a, proc[p].b))
       => ~IsZero(Divisor(proc[p].a, proc[p].b))
    /\ (Done(p, "FindSimilar") /\ proc[p].status # "storage"
        /\ proc[p].limit >= 0)
       => /\ proc[p].status = "nil"
          /\ \A i \in 1..Len(proc[p].result) :
               Len(VectorOf(proc[p].result[i].Entry.id)) # Len(proc[p].vector)
               => proc[p].result[i].Similarity = Zero

\* C14 witness: cosineSimilarity returned 0 for a zero vector against a
\* vector with a NaN, and for the empty vector against itself.
C14_Witness ==
  \E p \in Procs :
    /\ Done(p, "cosineSimilarity") /\ proc[p].sim = Zero
    /\ \/ proc[p].a = <<0, 0>> /\ proc[p].b = <<225, 0>>
       \/ proc[p].a = <<>> /\ proc[p].b = <<>>

\* every component is finite
Finite(v) == \A i \in 1..Len(v) : Float64frombits(v[i]).cls = "fin"

\* C15: for vectors a, b of equal length with finite components
\* cosineSimilarity(a, b) lies in [-1, 1], and cosineSimilarity(a, a) = 1
\* when a is not the zero vector.
C15_CosineBounds ==
  \A p \in Procs :
    (/\ Done(p, "cosineSimilarity")
     /\ Len(proc[p].a) = Len(proc[p].b)
     /\ Finite(proc[p].a) /\ Finite(proc[p].b))
    => /\ proc[p].sim.cls = "fin" /\ proc[p].sim.mag <= One
       /\ (proc[p].a = proc[p].b /\ ~ZeroNorm(proc[p].a))
          => proc[p].sim = Fin(1, One)

\* x is staler than y: never viewed while y was viewed, or viewed earlier,
\* or, both never viewed or both viewed at the same time, created later
Staler(x, y) ==
  LET viewed(e) == IF e.last_viewed_at = NoTime THEN 0 ELSE e.last_viewed_at
  IN \/ viewed(x) < viewed(y)
     \/ viewed(x) = viewed(y) /\ x.created_at > y.created_at

\* res is a start of rows put in staleness order: rows of the set, none
\* twice, none staler than one before it, no omitted row staler than a
\* returned one
StalestOf(res, rows) ==
  /\ \A i \in 1..Len(res) : res[i] \in rows
  /\ \A i, j \in 1..Len(res) : i < j => res[i] # res[j] /\ ~Staler(res[j], res[i])
  /\ \A e \in rows :
       (\A i \in 1..Len(res) : res[i] # e)
       => \A i \in 1..Len(res) : ~Staler(e, res[i])

\* C16 as stated: GetSuggestions(limit) returns at most limit entries, the
\* first of all entries in staleness order (never viewed first, then by
\* last_viewed_at ascending, ties by created_at descending), limit of them
\* when there are as many.
C16_StalestFirst ==
  \A p \in Procs :
    (Done(p, "GetSuggestions") /\ proc[p].status = "nil")
    => /\ Len(proc[p].result) <= proc[p].limit
       /\ Len(proc[p].result) = proc[p].limit
          \/ Len(proc[p].result) = Cardinality(entries)
       /\ StalestOf(proc[p].result, entries)

\* C16 amended: for limit >= 0 GetSuggestions(limit) returns min(limit,
\* number of entries) entries, the first of all entries in staleness order;
\* for a negative limit it returns all entries in staleness order.
C16_StalestFirstNonNegative ==
  \A p \in Procs :
    (Done(p, "GetSuggestions") /\ proc[p].status = "nil")
    => /\ Len(proc[p].result) =
            IF 0 <= proc[p].limit /\ proc[p].limit < Cardinality(entries)
            THEN proc[p].limit ELSE Cardinality(entries)
       /\ StalestOf(proc[p].result, entries)

\* C16 witness: with E1 never viewed, E2 viewed at 1 and E3 viewed at 2,
\* GetSuggestions(3) returned [E1, E2, E3].
C16_Witness ==
  \E p \in Procs :
    /\ Done(p, "GetSuggestions") /\ proc[p].status = "nil"
    /\ proc[p].limit = 3 /\ Len(proc[p].result) = 3
    /\ proc[p].result[1].last_viewed_at = NoTime
    /\ proc[p].result[2].last_viewed_at = 1
    /\ proc[p].result[3].last_viewed_at = 2

\* the entries that have a link to a tag id entryID has a link to
SharingTag(entryID) ==
  {e \in entries :
     /\ e.id # entryID
     /\ \E x, y \in entry_tags :
          x.entry_id = entryID /\ y.entry_id = e.id /\ x.tag_id = y.tag_id}

\* C17 as stated: the tag-based FindSimilar(entryID, limit) returns at most
\* limit entries, each sharing a tag with entryID and none entryID itself,
\* none twice, the first of the sharing entries in staleness order, limit of
\* them when there are as many; an entry without tags yields the empty result.
C17_SharedTags ==
  \A p \in Procs :
    (Done(p, "FindSimilarByTags") /\ proc[p].status = "nil")
    => LET share == SharingTag(proc[p].entry) IN
       /\ Len(proc[p].result) <= proc[p].limit
       /\ Len(proc[p].result) = proc[p].limit
          \/ Len(proc[p].result) = Cardinality(share)
       /\ StalestOf(proc[p].result, share)
       /\ \A i \in 1..Len(proc[p].result) :
            proc[p].result[i].id # proc[p].entry
       /\ (\A r \in entry_tags : r.entry_id # proc[p].entry)
          => proc[p].result = <<>>

\* C17 amended: the same for limit >= 0, with min(limit, number of sharing
\* entries) results; for a negative limit all sharing entries are returned.
C17_SharedTagsNonNegative ==
  \A p \in Procs :
    (Done(p, "FindSimilarByTags") /\ proc[p].status = "nil")
    => LET share == SharingTag(proc[p].entry) IN
       /\ Len(proc[p].result) =
            IF 0 <= proc[p].limit /\ proc[p].limit < Cardinality(share)
            THEN proc[p].limit ELSE Cardinality(share)
       /\ StalestOf(proc[p].result, share)
       /\ \A i \in 1..Len(proc[p].result) :
            proc[p].result[i].id # proc[p].entry
       /\ (\A r \in entry_tags : r.entry_id # proc[p].entry)
          => proc[p].result = <<>>

\* C17 witness: entry 1 shares both of its tags with entry 2 and one with
\* entry 3; FindSimilar(1, 2) returned the two, each once, the never viewed
\* one before the viewed one.
C17_Witness ==
  \E p \in Procs :
    /\ Done(p, "FindSimilarByTags") /\ proc[p].status = "nil"
    /\ proc[p].entry = 1 /\ proc[p].limit = 2
    /\ Cardinality({r \in entry_tags : r.entry_id = 1}) = 2
    /\ Cardinality({r \in entry_tags : r.entry_id = 2}) = 2
    /\ Cardinality({r \in entry_tags : r.entry_id = 3}) = 1
    /\ Len(proc[p].result) = 2
    /\ proc[p].result[1].last_viewed_at = NoTime
    /\ proc[p].result[2].last_viewed_at # NoTime

\* C18: creating an entry with empty or whitespace-only content fails with
\* InvalidInput (400 over HTTP) and stores nothing, by AddEntry, by the HTTP
\* handler and by the CLI; a create that succeeded stored its row.
C18_BlankRejected ==
  \A p \in Procs :
    (/\ proc[p].pc = "done"
     /\ Done(p, "AddEntry") \/ proc[p].kind \in {"http", "cli"}
     /\ proc[p].status # "storage")
    => /\ TrimSpace(proc[p].content) = <<>>
          => /\ proc[p].status \in {"invalid input", "400"}
             /\ proc[p].added = NoId
             /\ \A r \in entries : TrimSpace(r.content) # <<>>
       /\ proc[p].added # NoId => Stored(p)

\* C19: a DeleteEntry(id) that the driver did not fail returns "entry not
\* found" and changes no table when no entry has the id; when one has, it
\* returns nil and removes that entry row and no other.
C19_DeleteEntry ==
  [][\A p \in Procs :
       (/\ proc'[p].kind = "call" /\ proc'[p].fn = "DeleteEntry"
        /\ proc'[p].pc = "done" /\ proc'[p].status # "storage"
        /\ proc'[p] # proc[p] \/ entries' # entries)
       => IF \E r \in entries : r.id = proc'[p].entry
          THEN /\ proc'[p].status = "nil"
               /\ entries' = {r \in entries : r.id # proc'[p].entry}
               /\ Cardinality(entries') = Cardinality(entries) - 1
               /\ tags' = tags
          ELSE /\ proc'[p].status = "not found"
               /\ entries' = entries /\ tags' = tags
               /\ entry_tags' = entry_tags /\ embeddings' = embeddings]_vars

\* C19 witness: DeleteEntry(1) removed entry 1 and left the two others; the
\* next DeleteEntry(1) returned "entry not found".
C19_Witness ==
  \E p \in Procs :
    /\ Done(p, "DeleteEntry") /\ proc[p].status = "not found"
    /\ proc[p].entry = 1
    /\ {r.id : r \in entries} = StoredIds \ {1}
    /\ entry_tags # {} /\ embeddings # {}

\* C20: on a store without tags, an add-entry flow whose classifier returned
\* [golang under programming with 0.9, concurrency under programming with
\* 0.4] and in which no store call failed ends with exactly three tags,
\* programming without parent and golang and concurrency with parent_id the
\* id of programming, exactly two links of the entry, to golang with 0.9 and
\* to concurrency with 0.4, and a tag tree of the one root programming with
\* exactly the children golang and concurrency.
C20_TwoTagsUnderOneParent ==
  \A p \in Procs :
    (/\ proc[p].pc = "done" /\ proc[p].kind \in {"http", "cli"}
     /\ proc[p].added # NoId
     /\ proc[p].failed \cap {"classifier", "tag", "race", "link"} = {})
    => \E tp, t1, t2 \in tags :
         /\ tags = {tp, t1, t2}
         /\ tp.name = "programming" /\ tp.parent_id = NoId
         /\ t1.name = "golang" /\ t1.parent_id = tp.id
         /\ t2.name = "concurrency" /\ t2.parent_id = tp.id
         /\ {r \in entry_tags : r.entry_id = proc[p].added}
              = {[entry_id |-> proc[p].added, tag_id |-> t1.id,
                  confidence |-> 9],
                 [entry_id |-> proc[p].added, tag_id |-> t2.id,
                  confidence |-> 4]}
         /\ Len(listTags) = 1
         /\ listTags[1].ID = tp.id /\ listTags[1].Name = "programming"
         /\ Len(listTags[1].Children) = 2
         /\ {listTags[1].Children[i] : i \in 1..2}
              = {[ID |-> t1.id, Name |-> "golang", Children |-> <<>>],
                 [ID |-> t2.id, Name |-> "concurrency", Children |-> <<>>]}

\* C20 witness: the HTTP flow ended with 201, nothing failed, three tags are
\* stored.
C20_Witness ==
  \E p \in Procs :
    /\ proc[p].pc = "done" /\ proc[p].kind = "http"
    /\ proc[p].status = "201" /\ proc[p].failed = {}
    /\ Cardinality(tags) = 3 /\ Cardinality(entry_tags) = 2

\* the ancestors of a tag id: its parent, the parent's parent, ...
RECURSIVE AncestorsWithin(_, _)
AncestorsWithin(id, k) ==
  IF k = 0 THEN {}
  ELSE LET ps == {t.parent_id : t \in {t \in tags : t.id = id}} \ {NoId} IN
       ps \cup UNION {AncestorsWithin(x, k - 1) : x \in ps}

Ancestors(id) == AncestorsWithin(id, Cardinality(tags))

\* C21: building the tag tree (buildNode of listTags, printTree of the CLI)
\* terminates on every set of stored tag rows, a parent_id being NULL or any
\* id, cycles and self-references included: a handler that has started the
\* descent ends, and it calls buildNode / printTree at most once per tag.
C21_TreeTerminates ==
  /\ [](\A p \in Procs : proc[p].calls <= Cardinality(tags))
  /\ \A p \in Procs : (proc[p].pc = "walk") ~> (proc[p].pc = "done")

\* C21 witness: the handler has ended, having descended from a root to its
\* child, on a store in which a third tag is its own ancestor.
C21_Witness ==
  \E p \in Procs :
    /\ proc[p].pc = "done" /\ proc[p].kind \in {"listTags", "tagsCmd"}
    /\ proc[p].calls = 2
    /\ \E t \in tags : t.id \in Ancestors(t.id)

\* res is the page of limit rows after the first offset rows of the entries
\* put in the order of created_at descending: as many rows as the entries
\* have there, each an entry, none twice, none created later than one before
\* it, offset entries left out in front of the page and the others behind it
PageOf(res, limit, offset) ==
  LET rest == Cardinality(entries) - offset
      in == {res[i] : i \in 1..Len(res)}
  IN /\ Len(res) = IF rest < 0 THEN 0 ELSE IF limit < rest THEN limit ELSE rest
     /\ in \subseteq entries
     /\ Cardinality(in) = Len(res)
     /\ \A i, j \in 1..Len(res) : i < j => res[i].created_at >= res[j].created_at
     /\ res # <<>> =>
          \E front \in SUBSET (entries \ in) :
            /\ Cardinality(front) = offset
            /\ \A e \in front : e.created_at >= res[1].created_at
            /\ \A e \in entries \ (in \cup front) :
                 e.created_at <= res[Len(res)].created_at

LookedUp(p) == proc[p].pc = "done" /\ proc[p].kind \in {"getEntry", "showCmd"}

\* C22: an entry that was opened (GET /entries/{id}, `kb show`) has its
\* last_viewed_at set, and so comes behind every never-viewed entry in the
\* order of GetSuggestions.
C22_ViewedIsStamped ==
  \A p \in Procs :
    (LookedUp(p) /\ proc[p].status \in {"200", "nil"})
    => \A e \in entries :
         e.id = proc[p].entry
         => /\ e.last_viewed_at # NoTime
            /\ \A o \in entries : o.last_viewed_at = NoTime => Staler(o, e)

\* C25: a lookup by the full id of an entry of the store returns that entry
\* with its tags, however many entries were created after it; a lookup by a
\* key no entry's id starts with reports not found (lookups the driver
\* failed are left aside).
C25_LookupByFullId ==
  \A p \in Procs :
    (LookedUp(p) /\ proc[p].status \notin {"500", "err"})
    => /\ \A e \in entries :
            proc[p].key = IdString(e.id)
            => /\ proc[p].status \in {"200", "nil"}
               /\ proc[p].result =
                    <<[err |-> "nil", id |-> e.id, content |-> e.content,
                       created_at |-> e.created_at,
                       last_viewed_at |-> e.last_viewed_at,
                       tags |-> {t \in tags : \E et \in entry_tags :
                                   et.entry_id = e.id /\ et.tag_id = t.id}]>>
       /\ (\A e \in entries : ~HasPrefix(IdString(e.id), proc[p].key))
          => proc[p].status \in {"404", "not found"}

\* C23: GetOrCreateTag, LinkEntryTag and SaveEmbedding are idempotent under
\* retry: when a caller repeats the call that just returned nil, with the
\* same arguments, no step of the repeated call changes a table, and the
\* call returns nil unless the driver failed it.
C23_IdempotentRetry ==
  [][\A p \in Procs :
       (/\ proc'[p] # proc[p]
        /\ proc'[p].kind = "call" /\ proc'[p].again
        /\ proc'[p].fn \in {"GetOrCreateTag", "LinkEntryTag", "SaveEmbedding"})
       => /\ entries' = entries /\ tags' = tags
          /\ entry_tags' = entry_tags /\ embeddings' = embeddings
          /\ (proc'[p].pc = "done" /\ proc'[p].status # "storage")
             => proc'[p].status = "nil"]_vars

\* C23 witness: SaveEmbedding was repeated and returned nil, while a tag, a
\* link and the embedding are stored.
C23_Witness ==
  \E p \in Procs :
    /\ Done(p, "SaveEmbedding") /\ proc[p].again /\ proc[p].status = "nil"
    /\ tags # {} /\ entry_tags # {}
    /\ VectorOf(proc[p].entry) = proc[p].vector

\* C26: in every state the add-entry flows reach, every parent_id that is
\* not NULL is the id of a stored tag, and no tag is its own ancestor.
C26_ParentsFormForest ==
  \A t \in tags :
    /\ t.parent_id # NoId => TagExists(t.parent_id)
    /\ t.id \notin Ancestors(t.id)

\* C26 witness: go is stored under prog, and a flow whose suggestion is prog
\* under go got the stored prog back from GetOrCreateTag.
C26_Witness ==
  \E p \in Procs :
    /\ proc[p].pc = "link"
    /\ proc[p].sug.name = "prog" /\ proc[p].sug.parent = "go"
    /\ \E g, pr \in tags :
         /\ g.name = "go" /\ pr.name = "prog"
         /\ g.parent_id = pr.id /\ proc[p].tagID = pr.id
         /\ proc[p].parentID = g.id

\* C27: no step changes or removes a stored tag row, so a tag's parent_id is
\* the one of its creation; a GetOrCreateTag(name, parentID) that finds the
\* name returns the stored row's id and changes nothing.
C27_StoredTagKept ==
  [][/\ \A t \in tags : t \in tags'
     /\ \A p \in Procs :
          (/\ proc[p].pc = "select" /\ proc'[p].pc = "done"
           /\ proc'[p].status = "nil")
          => /\ tags' = tags
             /\ \E t \in tags :
                  t.name = proc[p].name /\ t.id = proc'[p].tagID]_vars

\* C27 witness: GetOrCreateTag(name, parentID) with a parent returned a tag
\* that is stored as a root.
C27_Witness ==
  \E p \in Procs :
    /\ Done(p, "GetOrCreateTag") /\ proc[p].status = "nil"
    /\ proc[p].parentArg # NoId
    /\ \E t \in tags :
         t.name = proc[p].name /\ t.id = proc[p].tagID /\ t.parent_id = NoId

\* the nodes of a tree in the order of the descent, each with the id of the
\* node it hangs under (NoId for a root)
RECURSIVE Flatten(_, _)
Flatten(nodes, parent) ==
  IF nodes = <<>> THEN <<>>
  ELSE <<[id |-> nodes[1].ID, name |-> nodes[1].Name, parent_id |-> parent]>>
       \o Flatten(nodes[1].Children, nodes[1].ID)
       \o Flatten(Tail(nodes), parent)

\* C28: in every state the add-entry flows reach, the tree listTags returns
\* holds every stored tag exactly once, a tag without parent as a root and
\* every other tag as a child of the node of its parent_id.
C28_TreeHoldsEveryTag ==
  LET nodes == Flatten(listTags, NoId) IN
  /\ Len(nodes) = Cardinality(tags)
  /\ {nodes[i] : i \in 1..Len(nodes)} = tags

\* C28 witness: two tags are stored, one under the other; the tree is one
\* root with one child.
C28_Witness ==
  /\ Cardinality(tags) = 2
  /\ \E t \in tags : t.parent_id # NoId
  /\ Len(listTags) = 1 /\ Len(listTags[1].Children) = 1

\* C29: when two add-entry flows have both handled the same suggestion on a
\* store that had no tag, both entries are linked to the one tag row of the
\* suggestion's name, and that row hangs under the row of the suggestion's
\* parent (flows in which the driver failed a tag or link call are left
\* aside).
C29_BothFlowsLinked ==
  \A p, q \in Procs :
    (/\ p # q
     /\ proc[p].pc = "loop" /\ proc[q].pc = "loop"
     /\ proc[p].n = 1 /\ proc[q].n = 1
     /\ proc[p].sug = proc[q].sug
     /\ (proc[p].failed \cup proc[q].failed) \cap {"tag", "link"} = {})
    => \E t \in tags :
         /\ t.name = proc[p].sug.name
         /\ \A x \in {p, q} :
              \E r \in entry_tags :
                r.entry_id = proc[x].added /\ r.tag_id = t.id
         /\ proc[p].sug.parent \notin {"", proc[p].sug.name}
            => \E pt \in tags :
                 pt.name = proc[p].sug.parent /\ t.parent_id = pt.id

\* the tags stored for an entry, each as the name of its tag and the stored
\* confidence
StoredTags(links, entryID) ==
  {[Name |-> (CHOOSE t \in tags : t.id = r.tag_id).name,
    Confidence |-> r.confidence] : r \in {x \in links : x.entry_id = entryID}}

\* C30: when the HTTP add-entry flow writes its 201 response, the tags of
\* the response are the tags stored for the new entry, each with the stored
\* confidence.
C30_ResponseTagsStored ==
  [][\A p \in Procs :
       (/\ proc[p].kind = "http" /\ proc[p].pc = "embed"
        /\ proc'[p].pc = "done" /\ proc'[p].status = "201")
       => {[Name |-> proc[p].resp[i].Name,
            Confidence |-> proc[p].resp[i].Confidence] :
             i \in 1..Len(proc[p].resp)}
          = StoredTags(entry_tags', proc[p].added)]_vars

====
